---------------------------- MODULE Spec2Model ----------------------------
(***************************************************************************)
(* A model of the two vaults of alfa-brige-360:                            *)
(*   - PhotoVault (alfa_photos_vault/src/vault.rs) with its index, its     *)
(*     secure file system and its AEAD / HMAC / HKDF primitives;           *)
(*   - VaultBrain (alfa_keyvault/src/brain.rs) with its AutoPolicy.        *)
(* Cryptography is modelled symbolically and structurally: a key is the    *)
(* term that derived it, a ciphertext is a byte sequence whose elements    *)
(* carry the key, nonce and plaintext they were sealed from, and opening   *)
(* recomputes the sealing and compares (ideal AEAD / HMAC / HKDF).         *)
(***************************************************************************)
EXTENDS Integers, Sequences, FiniteSets, TLC

(***************************************************************************)
(* Bounds of the model.                                                    *)
(***************************************************************************)
MaxPhotos == 2
MaxBlobLen == 1
MaxNonce == 1
MaxFailedCount == 6

(***************************************************************************)
(* Program constants.                                                      *)
(***************************************************************************)
NONCE_LEN == 12
XCHACHA_NONCE_LEN == 24
TAG_LEN == 16
DefaultMaxFailedAttempts == 5
U8 == 256

Pins == {"1234", "0000"}
CreatePin == "1234"
ByteVals == {7}
Blobs == UNION {[1..n -> ByteVals] : n \in 0..MaxBlobLen}
Nonces == 0..MaxNonce
PhotoIds == 1..MaxPhotos

(***************************************************************************)
(* Option and Result values.  Option: <<>> is None, <<x>> is Some(x).      *)
(***************************************************************************)
None == <<>>
Some(x) == <<x>>
IsSome(o) == Len(o) = 1
Ok(x) == [ok |-> TRUE, val |-> x, err |-> ""]
Err(e) == [ok |-> FALSE, val |-> <<>>, err |-> e]

(***************************************************************************)
(* Key derivation (crypto/keys.rs, vault.rs).                              *)
(***************************************************************************)
(* Hkdf::<Sha256>::new(Some(salt), ikm) (keys.rs 158) is HMAC-SHA256 keyed *)
(* with the salt: HMAC hashes a key longer than its block and pads a      *)
(* shorter one with zero bytes up to the block, so the key it works with  *)
(* is the salt without its trailing zero bytes.  Salts are sequences of   *)
(* bytes; the info goes into the HMAC message and is kept as it is.       *)
SHA256_BLOCK == 64

RECURSIVE StripZeros(_)
StripZeros(s) ==
    IF Len(s) > 0 /\ s[Len(s)] = 0 THEN StripZeros(SubSeq(s, 1, Len(s) - 1)) ELSE s

hmac_block_key(salt) ==
    IF Len(salt) > SHA256_BLOCK THEN <<"sha256", salt>> ELSE StripZeros(salt)

derive_key(ikm, salt, info) == <<"hkdf", ikm, hmac_block_key(salt), info>>

derive_seed_from_pin(pin) == <<"argon2id", pin, "ALFA_PHOTOS_VAULT_SALT_v1">>

(* b"photos", b"thumbs", b"index" and b"hmac" as bytes. *)
from_master_seed(seed) ==
    LET master == derive_key(seed, <<>>, "ALFA:PHOTOS:v1")
    IN [master |-> master,
        photos_key |-> derive_key(master, <<112, 104, 111, 116, 111, 115>>, "ALFA:PHOTOS:v1"),
        thumbs_key |-> derive_key(master, <<116, 104, 117, 109, 98, 115>>, "ALFA:THUMBS:v1"),
        index_key |-> derive_key(master, <<105, 110, 100, 101, 120>>, "ALFA:INDEX:v1"),
        hmac_key |-> derive_key(master, <<104, 109, 97, 99>>, "ALFA:HMAC:v1")]

(* file_id.as_bytes() is the salt (keys.rs 146-153). *)
derive_file_key(km, file_id) == derive_key(km.photos_key, file_id, "ALFA:FILE:v1")

derive_thumb_key(km, file_id) == derive_key(km.thumbs_key, file_id, "ALFA:FILE:v1")

(* Uuid::new_v4().to_string() of the photo the model numbers id: a string *)
(* without a zero byte, here the one byte id.                             *)
uuid_to_string(id) == <<id>>

(***************************************************************************)
(* AEAD (crypto/aead.rs).  NonceBytes spells nonce n out as len bytes;     *)
(* Seal is the ciphertext with its tag: one element per plaintext byte     *)
(* and TAG_LEN tag elements, the first of which carries what the tag      *)
(* binds: key, nonce and the whole plaintext.                              *)
(***************************************************************************)
NonceBytes(n, len) == [i \in 1..len |-> <<"nonce", n, i>>]

Seal(key, n, pt) ==
    [i \in 1..Len(pt) |-> <<"ct", key, n, i, pt[i]>>]
        \o [j \in 1..TAG_LEN |-> IF j = 1 THEN <<"tag", j, key, n, pt, 0>> ELSE <<"tag", j>>]

NonceOf(nonce) == IF Len(nonce) > 0 /\ Len(nonce[1]) = 3 THEN nonce[1][2] ELSE 0

PlainOf(ct) ==
    [i \in 1..(Len(ct) - TAG_LEN) |-> IF Len(ct[i]) = 5 THEN ct[i][5] ELSE 0]

(* A faulty variant of Open: the tag is not compared. *)
Open_Unauthenticated(key, nonce, ct) ==
    IF Len(ct) >= TAG_LEN THEN Ok(PlainOf(ct)) ELSE Err("DecryptionFailed")

Open(key, nonce, ct) ==
    IF Len(ct) >= TAG_LEN
       /\ nonce = NonceBytes(NonceOf(nonce), Len(nonce))
       /\ ct = Seal(key, NonceOf(nonce), PlainOf(ct))
    THEN Ok(PlainOf(ct))
    ELSE Err("DecryptionFailed")

to_bytes(enc) == enc.nonce \o enc.ciphertext

(* A faulty variant of from_bytes_aes: the nonce is cut one byte short. *)
from_bytes_aes_ShortNonce(data) ==
    IF Len(data) < NONCE_LEN + TAG_LEN
    THEN Err("DecryptionFailed")
    ELSE Ok([nonce |-> SubSeq(data, 1, NONCE_LEN - 1),
             ciphertext |-> SubSeq(data, NONCE_LEN, Len(data))])

from_bytes_aes(data) ==
    IF Len(data) < NONCE_LEN + TAG_LEN
    THEN Err("DecryptionFailed")
    ELSE Ok([nonce |-> SubSeq(data, 1, NONCE_LEN),
             ciphertext |-> SubSeq(data, NONCE_LEN + 1, Len(data))])

from_bytes_xchacha(data) ==
    IF Len(data) < XCHACHA_NONCE_LEN + TAG_LEN
    THEN Err("DecryptionFailed")
    ELSE Ok([nonce |-> SubSeq(data, 1, XCHACHA_NONCE_LEN),
             ciphertext |-> SubSeq(data, XCHACHA_NONCE_LEN + 1, Len(data))])

encrypt_aes_gcm(key, plaintext, n) ==
    [nonce |-> NonceBytes(n, NONCE_LEN), ciphertext |-> Seal(key, n, plaintext)]

decrypt_aes_gcm(key, enc) ==
    IF Len(enc.nonce) # NONCE_LEN
    THEN Err("DecryptionFailed")
    ELSE Open(key, enc.nonce, enc.ciphertext)

encrypt_xchacha(key, plaintext, n) ==
    [nonce |-> NonceBytes(n, XCHACHA_NONCE_LEN), ciphertext |-> Seal(key, n, plaintext)]

(* A faulty variant of decrypt_xchacha: the nonce is held to the AES length. *)
decrypt_xchacha_AesNonce(key, enc) ==
    IF Len(enc.nonce) # NONCE_LEN
    THEN Err("DecryptionFailed")
    ELSE Open(key, enc.nonce, enc.ciphertext)

decrypt_xchacha(key, enc) ==
    IF Len(enc.nonce) # XCHACHA_NONCE_LEN
    THEN Err("DecryptionFailed")
    ELSE Open(key, enc.nonce, enc.ciphertext)

compute_hmac(key, data) == <<"hmac-sha256", key, data>>

verify_hmac(key, data, expected) == compute_hmac(key, data) = expected

(***************************************************************************)
(* serde_json for the two persisted records of the photo vault.            *)
(***************************************************************************)
to_json(kind, v) == << <<"json", kind, v>> >>

from_json(kind, bytes) ==
    IF Len(bytes) = 1 /\ Len(bytes[1]) = 3 /\ bytes[1][1] = "json" /\ bytes[1][2] = kind
    THEN Ok(bytes[1][3])
    ELSE Err("DeserializationError")

VaultConfigDefault ==
    [thumb_size |-> 256, ai_enabled |-> TRUE,
     max_failed_attempts |-> DefaultMaxFailedAttempts]


(***************************************************************************)
(* State.                                                                  *)
(*   PhotoVault fields: state, keys, index, thumbs, ai, failed_attempts,   *)
(*     config (vault.rs 90-109).                                           *)
(*   Disk under the vault root: manifest_enc, photos_dir, thumbs_dir       *)
(*     (id -> Option(bytes)), index_db (the photos table: id -> Option of  *)
(*     the encrypted row).                                                 *)
(*   next_id: the next fresh Uuid::new_v4.                                 *)
(*   vlast: the last PhotoVault call: its argument, the state it started   *)
(*     in, whether it returned Ok and its error.                           *)
(*   wrong_checked: history variable, the wrong PINs that unlock checked   *)
(*     against the manifest since the vault was opened or last unlocked.   *)
(*   imported: history variable, id -> Option(the imported bytes) for      *)
(*     every import_photo that returned Ok(id) and on which delete_photo   *)
(*     was not called since.                                               *)
(***************************************************************************)
VARIABLES state, keys, index, thumbs, ai, failed_attempts, config,
          manifest_enc, photos_dir, thumbs_dir, index_db, next_id,
          vlast, imported, wrong_checked

vault_vars == <<state, keys, index, thumbs, ai, failed_attempts, config,
                manifest_enc, photos_dir, thumbs_dir, index_db, next_id,
                vlast, imported, wrong_checked>>

mem_vars == <<state, keys, index, thumbs, ai, failed_attempts, config>>
disk_vars == <<manifest_enc, photos_dir, thumbs_dir, index_db>>

VLast(op, arg, res, derived) ==
    [op |-> op, arg |-> arg, ok |-> res.ok, err |-> res.err,
     derived |-> derived,
     pre_state |-> state, pre_failed |-> failed_attempts]

(***************************************************************************)
(* PhotoIndex (index.rs).                                                  *)
(***************************************************************************)
PhotoIndex_open(km) == [keys |-> km]

add_photo(db, idx, meta, n) ==
    [db EXCEPT ![meta.id] =
        Some(to_bytes(encrypt_xchacha(idx.keys.index_key, to_json("PhotoMeta", meta), n)))]

DecodeRow(idx, row) ==
    LET e == from_bytes_xchacha(row)
    IN IF ~e.ok THEN e
       ELSE LET p == decrypt_xchacha(idx.keys.index_key, e.val)
            IN IF ~p.ok THEN p ELSE from_json("PhotoMeta", p.val)

index_get_photo(db, idx, id) ==
    IF ~IsSome(db[id]) THEN Err("PhotoNotFound") ELSE DecodeRow(idx, db[id][1])

list_all(db, idx) ==
    {DecodeRow(idx, db[id][1]).val :
        id \in {i \in DOMAIN db : IsSome(db[i]) /\ DecodeRow(idx, db[i][1]).ok}}

remove_photo(db, id) == [db EXCEPT ![id] = None]

(***************************************************************************)
(* PhotoVault::create (vault.rs 117-167): the state after construction.    *)
(***************************************************************************)
CreateVault(pin, n) ==
    LET km == from_master_seed(derive_seed_from_pin(pin))
    IN /\ state = "Unlocked"
       /\ keys = Some(km)
       /\ index = Some(PhotoIndex_open(km))
       /\ thumbs = Some([size |-> VaultConfigDefault.thumb_size])
       /\ ai = Some("SelfHealingAI")
       /\ failed_attempts = 0
       /\ config = VaultConfigDefault
       /\ manifest_enc =
            to_bytes(encrypt_aes_gcm(km.index_key, to_json("VaultConfig", VaultConfigDefault), n))
       /\ photos_dir = [i \in PhotoIds |-> None]
       /\ thumbs_dir = [i \in PhotoIds |-> None]
       /\ index_db = [i \in PhotoIds |-> None]
       /\ next_id = 1
       /\ vlast = [op |-> "create", arg |-> <<pin>>, ok |-> TRUE, err |-> "",
                   derived |-> TRUE, pre_state |-> "Locked", pre_failed |-> 0]
       /\ imported = [i \in PhotoIds |-> None]
       /\ wrong_checked = 0

(***************************************************************************)
(* PhotoVault::open (vault.rs 170-191): a new handle on the same root.     *)
(***************************************************************************)
OpenVault ==
    /\ vlast' = [op |-> "open", arg |-> <<>>, ok |-> TRUE, err |-> "", derived |-> FALSE,
                 pre_state |-> "Locked", pre_failed |-> 0]
    /\ state' = "Locked"
    /\ keys' = None
    /\ index' = None
    /\ thumbs' = None
    /\ ai' = None
    /\ failed_attempts' = 0
    /\ config' = VaultConfigDefault
    /\ wrong_checked' = 0
    /\ UNCHANGED <<disk_vars, next_id, imported>>

(***************************************************************************)
(* PhotoVault::unlock (vault.rs 198-251).  TryManifest is lines 205-212:   *)
(* the keys derived from the PIN and what decrypting the manifest gives.   *)
(***************************************************************************)
TryManifest(pin) ==
    LET km == from_master_seed(derive_seed_from_pin(pin))
        enc == from_bytes_aes(manifest_enc)
    IN [km |-> km,
        res |-> IF ~enc.ok THEN enc ELSE decrypt_aes_gcm(km.index_key, enc.val)]

UnlockInLockdown(pin) == state = "Lockdown"

(* A faulty variant of the failure path: Lockdown one attempt late. *)
UnlockFailed_OneLate(attempts) ==
    IF attempts > config.max_failed_attempts
    THEN [state |-> "Lockdown", err |-> "TooManyAttempts"]
    ELSE [state |-> state, err |-> "InvalidPin"]

UnlockFailed(attempts) ==
    IF attempts >= config.max_failed_attempts
    THEN [state |-> "Lockdown", err |-> "TooManyAttempts"]
    ELSE [state |-> state, err |-> "InvalidPin"]

Unlock(pin) ==
    IF UnlockInLockdown(pin)
    THEN /\ vlast' = VLast("unlock", <<pin>>, Err("TooManyAttempts"), FALSE)
         /\ UNCHANGED <<mem_vars, disk_vars, next_id, imported, wrong_checked>>
    ELSE LET t == TryManifest(pin)
             cfg == from_json("VaultConfig", t.res.val)
         IN IF t.res.ok /\ cfg.ok
            THEN /\ config' = cfg.val
                 /\ keys' = Some(t.km)
                 /\ index' = Some(PhotoIndex_open(t.km))
                 /\ thumbs' = Some([size |-> cfg.val.thumb_size])
                 /\ ai' = IF cfg.val.ai_enabled THEN Some("SelfHealingAI") ELSE None
                 /\ state' = "Unlocked"
                 /\ failed_attempts' = 0
                 /\ vlast' = VLast("unlock", <<pin>>, Ok(<<>>), TRUE)
                 /\ wrong_checked' = 0
                 /\ UNCHANGED <<disk_vars, next_id, imported>>
            ELSE IF t.res.ok
            THEN /\ vlast' = VLast("unlock", <<pin>>, Err("SerializationError"), TRUE)
                 /\ UNCHANGED <<mem_vars, disk_vars, next_id, imported, wrong_checked>>
            ELSE LET attempts == (failed_attempts + 1) % U8
                     f == UnlockFailed(attempts)
                 IN /\ failed_attempts < MaxFailedCount
                    /\ failed_attempts' = attempts
                    /\ state' = f.state
                    /\ vlast' = VLast("unlock", <<pin>>, Err(f.err), TRUE)
                    /\ wrong_checked' = wrong_checked + 1
                    /\ UNCHANGED <<keys, index, thumbs, ai, config, disk_vars,
                                   next_id, imported>>

(***************************************************************************)
(* PhotoVault::lock (vault.rs 254-260).                                    *)
(***************************************************************************)
LockState == "Locked"

Lock ==
    /\ keys' = None
    /\ index' = None
    /\ thumbs' = None
    /\ ai' = None
    /\ state' = LockState
    /\ vlast' = VLast("lock", <<>>, Ok(<<>>), FALSE)
    /\ UNCHANGED <<failed_attempts, config, disk_vars, next_id, imported, wrong_checked>>

(***************************************************************************)
(* PhotoVault::ensure_unlocked (vault.rs 547-553).                         *)
(***************************************************************************)
(* A faulty variant of ensure_unlocked: only the Locked state is refused. *)
ensure_unlocked_LockedOnly == IF state = "Locked" THEN Err("VaultLocked") ELSE Ok(<<>>)

ensure_unlocked == IF state # "Unlocked" THEN Err("VaultLocked") ELSE Ok(<<>>)

(***************************************************************************)
(* PhotoVault::get_photo_meta, get_photo, get_thumbnail, list_photos       *)
(* (vault.rs 346-405) as functions of the current state.  A call whose     *)
(* keys.as_ref().unwrap() finds no keys panics: Err("panic").              *)
(***************************************************************************)
get_photo_meta(id) ==
    IF ~ensure_unlocked.ok THEN ensure_unlocked
    ELSE IF IsSome(index) THEN index_get_photo(index_db, index[1], id)
    ELSE Err("VaultLocked")

read_file(dir, id) == IF IsSome(dir[id]) THEN Ok(dir[id][1]) ELSE Err("FileNotFound")

(* A faulty variant of get_photo_run: the HMAC is compared after decryption. *)
get_photo_run_HmacLast(id) ==
    IF ~ensure_unlocked.ok THEN [res |-> ensure_unlocked, steps |-> <<>>]
    ELSE IF ~IsSome(keys) THEN [res |-> Err("panic"), steps |-> <<>>]
    ELSE LET meta == get_photo_meta(id)
             file == read_file(photos_dir, id)
         IN IF ~meta.ok THEN [res |-> meta, steps |-> <<"get_photo_meta">>]
            ELSE IF ~file.ok THEN [res |-> file, steps |-> <<"get_photo_meta", "read_file">>]
            ELSE LET enc == from_bytes_aes(file.val)
                     pre == <<"get_photo_meta", "read_file", "derive_file_key",
                              "from_bytes_aes">>
                 IN IF ~enc.ok THEN [res |-> enc, steps |-> pre]
                    ELSE LET dec == decrypt_aes_gcm(derive_file_key(keys[1], uuid_to_string(id)), enc.val)
                         IN IF ~dec.ok
                            THEN [res |-> dec, steps |-> pre \o <<"decrypt_aes_gcm">>]
                            ELSE [res |-> IF verify_hmac(keys[1].hmac_key, file.val,
                                                         meta.val.hmac)
                                          THEN dec ELSE Err("HmacVerificationFailed"),
                                  steps |-> pre \o <<"decrypt_aes_gcm", "verify_hmac">>]

(* get_photo with the steps it went through: res is what it returns, steps *)
(* the calls it made after the gate, in order (vault.rs 353-367).          *)
get_photo_run(id) ==
    IF ~ensure_unlocked.ok THEN [res |-> ensure_unlocked, steps |-> <<>>]
    ELSE IF ~IsSome(keys) THEN [res |-> Err("panic"), steps |-> <<>>]
    ELSE LET meta == get_photo_meta(id)
             file == read_file(photos_dir, id)
         IN IF ~meta.ok THEN [res |-> meta, steps |-> <<"get_photo_meta">>]
            ELSE IF ~file.ok THEN [res |-> file, steps |-> <<"get_photo_meta", "read_file">>]
            ELSE IF ~verify_hmac(keys[1].hmac_key, file.val, meta.val.hmac)
            THEN [res |-> Err("HmacVerificationFailed"),
                  steps |-> <<"get_photo_meta", "read_file", "verify_hmac">>]
            ELSE LET enc == from_bytes_aes(file.val)
                     pre == <<"get_photo_meta", "read_file", "verify_hmac",
                              "derive_file_key", "from_bytes_aes">>
                 IN IF ~enc.ok THEN [res |-> enc, steps |-> pre]
                    ELSE [res |-> decrypt_aes_gcm(derive_file_key(keys[1], uuid_to_string(id)), enc.val),
                          steps |-> pre \o <<"decrypt_aes_gcm">>]

get_photo(id) == get_photo_run(id).res

get_thumbnail(id) ==
    IF ~ensure_unlocked.ok THEN ensure_unlocked
    ELSE IF ~IsSome(keys) THEN Err("panic")
    ELSE LET file == read_file(thumbs_dir, id)
         IN IF ~file.ok THEN file
            ELSE LET enc == from_bytes_aes(file.val)
                 IN IF ~enc.ok THEN enc
                    ELSE decrypt_aes_gcm(derive_thumb_key(keys[1], uuid_to_string(id)), enc.val)

list_photos ==
    IF ~ensure_unlocked.ok THEN ensure_unlocked
    ELSE IF IsSome(index) THEN Ok(list_all(index_db, index[1]))
    ELSE Err("VaultLocked")

GetPhoto(id) ==
    /\ vlast' = VLast("get_photo", <<>>, get_photo(id), FALSE)
    /\ UNCHANGED <<mem_vars, disk_vars, next_id, imported, wrong_checked>>

GetThumbnail(id) ==
    /\ vlast' = VLast("get_thumbnail", <<>>, get_thumbnail(id), FALSE)
    /\ UNCHANGED <<mem_vars, disk_vars, next_id, imported, wrong_checked>>

GetPhotoMeta(id) ==
    /\ vlast' = VLast("get_photo_meta", <<>>, get_photo_meta(id), FALSE)
    /\ UNCHANGED <<mem_vars, disk_vars, next_id, imported, wrong_checked>>

ListPhotos ==
    /\ vlast' = VLast("list_photos", <<>>, list_photos, FALSE)
    /\ UNCHANGED <<mem_vars, disk_vars, next_id, imported, wrong_checked>>

(***************************************************************************)
(* PhotoVault::import_photo (vault.rs 272-343).  plaintext is the source   *)
(* file, n1..n3 the nonces drawn for the photo, the thumbnail and the      *)
(* index row, and fail the step that returns an I/O or database error, if  *)
(* any.  ThumbnailEngine::generate (thumbs.rs 29-46) fails on what the     *)
(* image decoder rejects; the decoder is outside the model, which lets it  *)
(* accept exactly the non-empty blobs.                                     *)
(***************************************************************************)
ImportFails == {"none", "read_source", "write_photo", "write_thumb", "add_photo"}

thumb_generate(plaintext) ==
    IF Len(plaintext) = 0 THEN Err("ThumbnailFailed") ELSE Ok(<< <<"jpeg", plaintext>> >>)

PhotoMeta(id, original_name, plaintext, encrypted_bytes, hmac) ==
    [id |-> id, original_name |-> original_name,
     encrypted_size |-> Len(encrypted_bytes), original_size |-> Len(plaintext),
     hmac |-> hmac, tags |-> <<>>, is_hidden |-> FALSE, is_favorite |-> FALSE]

ImportPhoto(plaintext, original_name, n1, n2, n3, fail) ==
    IF ~ensure_unlocked.ok
    THEN /\ vlast' = VLast("import_photo", <<>>, ensure_unlocked, FALSE)
         /\ UNCHANGED <<mem_vars, disk_vars, next_id, imported, wrong_checked>>
    ELSE IF ~IsSome(keys) \/ fail = "read_source"
    THEN /\ vlast' = VLast("import_photo", <<>>,
                           IF ~IsSome(keys) THEN Err("panic") ELSE Err("IoError"), FALSE)
         /\ UNCHANGED <<mem_vars, disk_vars, next_id, imported, wrong_checked>>
    ELSE
      LET id == next_id
          km == keys[1]
          encrypted_bytes == to_bytes(encrypt_aes_gcm(derive_file_key(km, uuid_to_string(id)), plaintext, n1))
          hmac == compute_hmac(km.hmac_key, encrypted_bytes)
          thumb_data == thumb_generate(plaintext)
          is_image == thumb_data.ok
          thumb_bytes ==
              to_bytes(encrypt_aes_gcm(derive_thumb_key(km, uuid_to_string(id)), thumb_data.val, n2))
          meta == PhotoMeta(id, original_name, plaintext, encrypted_bytes, hmac)
          wrote_photo == fail # "write_photo"
          wrote_thumb == wrote_photo /\ IsSome(thumbs) /\ is_image /\ fail # "write_thumb"
          thumb_err == wrote_photo /\ IsSome(thumbs) /\ is_image /\ fail = "write_thumb"
          added == wrote_photo /\ ~thumb_err /\ IsSome(index) /\ fail # "add_photo"
          add_err == wrote_photo /\ ~thumb_err /\ IsSome(index) /\ fail = "add_photo"
          res == IF ~wrote_photo \/ thumb_err THEN Err("IoError")
                 ELSE IF add_err THEN Err("DatabaseError")
                 ELSE Ok(id)
      IN /\ next_id <= MaxPhotos
         /\ photos_dir' = IF wrote_photo
                          THEN [photos_dir EXCEPT ![id] = Some(encrypted_bytes)]
                          ELSE photos_dir
         /\ thumbs_dir' = IF wrote_thumb
                          THEN [thumbs_dir EXCEPT ![id] = Some(thumb_bytes)]
                          ELSE thumbs_dir
         /\ index_db' = IF added THEN add_photo(index_db, index[1], meta, n3) ELSE index_db
         /\ next_id' = IF wrote_photo THEN next_id + 1 ELSE next_id
         /\ imported' = IF res.ok
                        THEN [imported EXCEPT ![id] =
                                 Some(plaintext)]
                        ELSE imported
         /\ vlast' = VLast("import_photo", <<>>, res, FALSE)
         /\ UNCHANGED <<mem_vars, manifest_enc, wrong_checked>>

(***************************************************************************)
(* SecureFs::delete_file (secure_fs.rs 73-98): the file is overwritten     *)
(* with zeros and then removed; removed = FALSE is remove_file failing.    *)
(***************************************************************************)
Zeros(len) == [i \in 1..len |-> <<"zero">>]

delete_file(dir, id, removed) ==
    IF ~IsSome(dir[id]) THEN dir
    ELSE IF removed THEN [dir EXCEPT ![id] = None]
    ELSE [dir EXCEPT ![id] = Some(Zeros(Len(dir[id][1])))]

(***************************************************************************)
(* PhotoVault::delete_photo (vault.rs 408-429).                            *)
(***************************************************************************)
DeleteFails == {"none", "remove_photo", "delete_file"}

DeletePhoto(id, fail) ==
    IF ~ensure_unlocked.ok
    THEN /\ vlast' = VLast("delete_photo", <<>>, ensure_unlocked, FALSE)
         /\ UNCHANGED <<mem_vars, disk_vars, next_id, imported, wrong_checked>>
    ELSE IF IsSome(index) /\ fail = "remove_photo"
    THEN /\ vlast' = VLast("delete_photo", <<>>, Err("DatabaseError"), FALSE)
         /\ imported' = [imported EXCEPT ![id] = None]
         /\ UNCHANGED <<mem_vars, disk_vars, next_id, wrong_checked>>
    ELSE /\ index_db' = IF IsSome(index) THEN remove_photo(index_db, id) ELSE index_db
         /\ photos_dir' = delete_file(photos_dir, id, fail # "delete_file")
         /\ thumbs_dir' = IF fail = "delete_file" /\ IsSome(photos_dir[id])
                          THEN thumbs_dir
                          ELSE delete_file(thumbs_dir, id, TRUE)
         /\ imported' = [imported EXCEPT ![id] = None]
         /\ vlast' = VLast("delete_photo", <<>>,
                           IF fail = "delete_file" /\ IsSome(photos_dir[id])
                           THEN Err("IoError") ELSE Ok(<<>>), FALSE)
         /\ UNCHANGED <<mem_vars, manifest_enc, next_id, wrong_checked>>

(***************************************************************************)
(* PhotoVault::reset (vault.rs 436-520): clear_thumb_cache removes every   *)
(* thumbnail, rebuild_index re-creates the index handle on the same        *)
(* database and counts the photo files get_photo cannot return,            *)
(* verify_all_files lists the indexed photos get_photo cannot return.      *)
(***************************************************************************)
Reset ==
    IF ~ensure_unlocked.ok \/ ~IsSome(keys)
    THEN /\ vlast' = VLast("reset", <<>>,
                           IF ~ensure_unlocked.ok THEN ensure_unlocked ELSE Err("panic"), FALSE)
         /\ thumbs_dir' = IF ensure_unlocked.ok THEN [i \in PhotoIds |-> None] ELSE thumbs_dir
         /\ UNCHANGED <<mem_vars, manifest_enc, photos_dir, index_db, next_id, imported, wrong_checked>>
    ELSE LET report ==
                 [thumbs_cleared |-> Cardinality({i \in PhotoIds : IsSome(thumbs_dir[i])}),
                  index_errors |->
                      Cardinality({i \in PhotoIds : IsSome(photos_dir[i]) /\ ~get_photo(i).ok}),
                  integrity_issues |->
                      {m.id : m \in {x \in list_photos.val : ~get_photo(x.id).ok}}]
         IN /\ thumbs_dir' = [i \in PhotoIds |-> None]
            /\ index' = Some(PhotoIndex_open(keys[1]))
            /\ vlast' = VLast("reset", <<>>, Ok(report), FALSE)
            /\ UNCHANGED <<state, keys, thumbs, ai, failed_attempts, config,
                           manifest_enc, photos_dir, index_db, next_id, imported, wrong_checked>>

(***************************************************************************)
(* PhotoVault::unlock called by several threads on one vault.              *)
(* PhotoVaultApi::unlock (api.rs 156-158) takes the outer lock for         *)
(* reading, and every field of PhotoVault has a lock of its own            *)
(* (vault.rs 90-109), so the calls interleave between lock acquisitions:   *)
(*   UnlockCheck    the Lockdown test                     (vault.rs 200-202)*)
(*   UnlockDecrypt  key derivation, manifest decryption   (vault.rs 205-212)*)
(*   UnlockInstall  the writes up to the state            (vault.rs 227-232)*)
(*   UnlockReset    failed_attempts = 0                   (vault.rs 233)    *)
(*   UnlockCount    the wrong-PIN arm, whole under the                     *)
(*                  failed_attempts write guard           (vault.rs 238-249)*)
(*   upc[t]   where thread t stands in unlock                              *)
(*   upin[t]  the PIN of its call                                          *)
(*   uret[t]  what its last call returned                                  *)
(* wrong_checked counts the wrong PINs whose manifest decryption was tried *)
(* while the state was not Lockdown.                                       *)
(***************************************************************************)
VARIABLES upc, upin, uret

race_vars == <<upc, upin, uret>>

MaxThreads == 2
Threads == 1..MaxThreads

RaceInit ==
    /\ upc = [t \in Threads |-> "idle"]
    /\ upin = [t \in Threads |-> CreatePin]
    /\ uret = [t \in Threads |-> ""]

UnlockCheck(t, pin) ==
    /\ upc[t] = "idle"
    /\ upin' = [upin EXCEPT ![t] = pin]
    /\ IF UnlockInLockdown(pin)
       THEN /\ uret' = [uret EXCEPT ![t] = "TooManyAttempts"]
            /\ UNCHANGED upc
       ELSE /\ upc' = [upc EXCEPT ![t] = "decrypt"]
            /\ uret' = [uret EXCEPT ![t] = ""]
    /\ UNCHANGED vault_vars

UnlockDecrypt(t) ==
    /\ upc[t] = "decrypt"
    /\ LET try == TryManifest(upin[t])
       IN IF try.res.ok
          THEN /\ upc' = [upc EXCEPT ![t] = "install"]
               /\ UNCHANGED wrong_checked
          ELSE /\ upc' = [upc EXCEPT ![t] = "count"]
               /\ wrong_checked' = IF state # "Lockdown"
                                   THEN wrong_checked + 1 ELSE wrong_checked
    /\ UNCHANGED <<mem_vars, disk_vars, next_id, vlast, imported, upin, uret>>

UnlockInstall(t) ==
    /\ upc[t] = "install"
    /\ LET try == TryManifest(upin[t])
           cfg == from_json("VaultConfig", try.res.val)
       IN /\ config' = cfg.val
          /\ keys' = Some(try.km)
          /\ index' = Some(PhotoIndex_open(try.km))
          /\ thumbs' = Some([size |-> cfg.val.thumb_size])
          /\ ai' = IF cfg.val.ai_enabled THEN Some("SelfHealingAI") ELSE None
          /\ state' = "Unlocked"
    /\ upc' = [upc EXCEPT ![t] = "reset"]
    /\ UNCHANGED <<failed_attempts, disk_vars, next_id, vlast, imported,
                   upin, uret, wrong_checked>>

UnlockReset(t) ==
    /\ upc[t] = "reset"
    /\ failed_attempts' = 0
    /\ wrong_checked' = 0
    /\ upc' = [upc EXCEPT ![t] = "idle"]
    /\ uret' = [uret EXCEPT ![t] = "Ok"]
    /\ UNCHANGED <<state, keys, index, thumbs, ai, config, disk_vars, next_id,
                   vlast, imported, upin>>

UnlockCount(t) ==
    /\ upc[t] = "count"
    /\ LET attempts == (failed_attempts + 1) % U8
       IN /\ failed_attempts' = attempts
          /\ state' = UnlockFailed(attempts).state
          /\ uret' = [uret EXCEPT ![t] = UnlockFailed(attempts).err]
    /\ upc' = [upc EXCEPT ![t] = "idle"]
    /\ UNCHANGED <<keys, index, thumbs, ai, config, disk_vars, next_id,
                   vlast, imported, upin, wrong_checked>>

(* A new handle on the vault, opened while no call is under way. *)
RaceOpen ==
    /\ \A t \in Threads : upc[t] = "idle"
    /\ OpenVault
    /\ UNCHANGED <<upc, upin, uret>>

(***************************************************************************)
(* The handles that one application opens, one after the other, on one     *)
(* vault root (vault.rs 170-191, 198-251).  What PhotoVault keeps of the   *)
(* failed attempts, failed_attempts and the Lockdown state, lives in the   *)
(* handle; the root on disk holds the manifest, the photos and the index.  *)
(*   root_wrong     the wrong PINs tried against the manifest of the root  *)
(*                  since the last successful unlock, over all handles     *)
(*   root_lockdown  a handle of the root was driven into Lockdown and no   *)
(*                  unlock has succeeded since; PhotoVault has no timer    *)
(*                  that ends a Lockdown                                   *)
(*   root_pre       root_lockdown before the last call                     *)
(***************************************************************************)
VARIABLES root_wrong, root_lockdown, root_pre

root_vars == <<root_wrong, root_lockdown, root_pre>>

MaxRootWrong == 12

RootInit ==
    /\ root_wrong = 0
    /\ root_lockdown = FALSE
    /\ root_pre = FALSE

RootOpen ==
    /\ OpenVault
    /\ root_pre' = root_lockdown
    /\ UNCHANGED <<root_wrong, root_lockdown>>

RootUnlock(pin) ==
    /\ root_wrong < MaxRootWrong
    /\ Unlock(pin)
    /\ root_pre' = root_lockdown
    /\ root_wrong' = IF vlast'.ok THEN 0
                     ELSE IF vlast'.derived /\ vlast'.err \in {"InvalidPin", "TooManyAttempts"}
                     THEN root_wrong + 1
                     ELSE root_wrong
    /\ root_lockdown' = IF vlast'.ok THEN FALSE
                        ELSE IF state' = "Lockdown" THEN TRUE
                        ELSE root_lockdown

(***************************************************************************)
(* PhotoVault::lock and the gated operations called by several threads on  *)
(* one vault (vault.rs 254-260, 272-276, 346-350, 371-375, 436-478).       *)
(* Every field has a lock of its own, so the calls interleave between lock *)
(* acquisitions:                                                           *)
(*   GateLock   one assignment of lock(): keys, index, thumbs, ai, state,  *)
(*              each under the write guard of its field alone              *)
(*   GateCheck  ensure_unlocked, and for reset clear_thumb_cache           *)
(*   GateKeys   keys.read() and keys.as_ref().unwrap()                     *)
(*   GateRun    the rest of the operation under the keys read guard; for   *)
(*              reset the rest of rebuild_index                            *)
(*   GateVerify verify_all_files of reset, taken as one step               *)
(*   gpc[t]   where thread t stands                                        *)
(*   gop[t]   the operation of its call                                    *)
(*   gret[t]  what its last call returned; "panic" for an unwrap of None   *)
(* A thread at "run" holds the keys read guard, so keys.write() of lock    *)
(* waits for it.                                                           *)
(***************************************************************************)
VARIABLES gpc, gop, gret

gate_vars == <<gpc, gop, gret>>

GateOps == {"import_photo", "get_photo", "get_thumbnail", "reset"}

GateInit ==
    /\ gpc = [t \in Threads |-> "idle"]
    /\ gop = [t \in Threads |-> ""]
    /\ gret = [t \in Threads |-> ""]

GateReturn(t, op, ret) ==
    /\ gpc' = [gpc EXCEPT ![t] = "idle"]
    /\ gop' = [gop EXCEPT ![t] = op]
    /\ gret' = [gret EXCEPT ![t] = ret]

GateMove(t, op, pc) ==
    /\ gpc' = [gpc EXCEPT ![t] = pc]
    /\ gop' = [gop EXCEPT ![t] = op]
    /\ gret' = [gret EXCEPT ![t] = ""]

(* unlock with the right PIN, while no other call is running. *)
GateUnlock ==
    /\ \A t \in Threads : gpc[t] = "idle"
    /\ Unlock(CreatePin)
    /\ UNCHANGED gate_vars

GateLock(t) ==
    /\ gpc[t] \in {"idle", "lock_index", "lock_thumbs", "lock_ai", "lock_state"}
    /\ gpc[t] = "idle" => \A u \in Threads : gpc[u] # "run"
    /\ keys' = IF gpc[t] = "idle" THEN None ELSE keys
    /\ index' = IF gpc[t] = "lock_index" THEN None ELSE index
    /\ thumbs' = IF gpc[t] = "lock_thumbs" THEN None ELSE thumbs
    /\ ai' = IF gpc[t] = "lock_ai" THEN None ELSE ai
    /\ state' = IF gpc[t] = "lock_state" THEN LockState ELSE state
    /\ vlast' = IF gpc[t] = "lock_state" THEN VLast("lock", <<>>, Ok(<<>>), FALSE) ELSE vlast
    /\ CASE gpc[t] = "idle" -> GateMove(t, "lock", "lock_index")
         [] gpc[t] = "lock_index" -> GateMove(t, "lock", "lock_thumbs")
         [] gpc[t] = "lock_thumbs" -> GateMove(t, "lock", "lock_ai")
         [] gpc[t] = "lock_ai" -> GateMove(t, "lock", "lock_state")
         [] gpc[t] = "lock_state" -> GateReturn(t, "lock", "Ok")
    /\ UNCHANGED <<failed_attempts, config, disk_vars, next_id, imported, wrong_checked>>

GateCheck(t, op) ==
    /\ gpc[t] = "idle"
    /\ IF ensure_unlocked.ok
       THEN /\ GateMove(t, op, "keys")
            /\ thumbs_dir' = IF op = "reset" THEN [i \in PhotoIds |-> None] ELSE thumbs_dir
       ELSE /\ GateReturn(t, op, ensure_unlocked.err)
            /\ UNCHANGED thumbs_dir
    /\ UNCHANGED <<mem_vars, manifest_enc, photos_dir, index_db, next_id, vlast,
                   imported, wrong_checked>>

GateKeys(t) ==
    /\ gpc[t] = "keys"
    /\ IF IsSome(keys)
       THEN GateMove(t, gop[t], "run")
       ELSE GateReturn(t, gop[t], "panic")
    /\ UNCHANGED vault_vars

GateRun(t, id, plaintext, original_name, n) ==
    /\ gpc[t] = "run"
    /\ CASE gop[t] = "import_photo" -> ImportPhoto(plaintext, original_name, n, n, n, "none")
         [] gop[t] = "get_photo" -> GetPhoto(id)
         [] gop[t] = "get_thumbnail" -> GetThumbnail(id)
         [] gop[t] = "reset" ->
              /\ index' = Some(PhotoIndex_open(keys[1]))
              /\ UNCHANGED <<state, keys, thumbs, ai, failed_attempts, config, disk_vars,
                             next_id, vlast, imported, wrong_checked>>
    /\ IF gop[t] = "reset"
       THEN GateMove(t, "reset", "verify")
       ELSE GateReturn(t, gop[t], IF vlast'.ok THEN "Ok" ELSE vlast'.err)

GateVerify(t) ==
    /\ gpc[t] = "verify"
    /\ IF ensure_unlocked.ok /\ ~IsSome(keys)
       THEN /\ GateReturn(t, "reset", "panic")
            /\ UNCHANGED vault_vars
       ELSE IF ensure_unlocked.ok
       THEN /\ Reset
            /\ GateReturn(t, "reset", IF vlast'.ok THEN "Ok" ELSE vlast'.err)
       ELSE /\ GateReturn(t, "reset", "Ok")
            /\ UNCHANGED vault_vars

(***************************************************************************)
(* alfa_keyvault: ThreatLevel and AutoPolicy (policy.rs).  A policy is the *)
(* record of the fields that VaultBrain reads: max_failed_attempts,        *)
(* lockout_seconds, threat_level, allowed_hours and the metrics of the     *)
(* threat score.  Time is in seconds; hour_of is the hour of the day.      *)
(***************************************************************************)
from_score(score) ==
    IF score <= 20 THEN "Normal"
    ELSE IF score <= 50 THEN "Elevated"
    ELSE IF score <= 80 THEN "High"
    ELSE "Critical"

PolicyMetricsDefault ==
    [failed_attempts_24h |-> 0, unusual_hour_access |-> FALSE,
     rapid_access_attempts |-> FALSE, new_device_detected |-> FALSE]

AutoPolicyDefault ==
    [max_failed_attempts |-> 5, lockout_seconds |-> 300, threat_level |-> "Normal",
     allowed_hours |-> None, metrics |-> PolicyMetricsDefault,
     auto_lock_after_seconds |-> 300]

high_security ==
    [AutoPolicyDefault EXCEPT !.max_failed_attempts = 3, !.lockout_seconds = 900,
                              !.threat_level = "Elevated",
                              !.auto_lock_after_seconds = 60]

hour_of(t) == (t \div 3600) % 24

is_access_allowed_now(p, t) ==
    IF p.allowed_hours = None THEN TRUE ELSE hour_of(t) \in p.allowed_hours[1]

Min(x, y) == IF x < y THEN x ELSE y

(* u32 arithmetic as the machine does it: a value is the pair of its      *)
(* 16-bit halves, an operation returns the wrapped value and whether it  *)
(* overflowed.  The count itself is below 2^31 here.                     *)
LIMB == 65536

U32(n) == [hi |-> n \div LIMB, lo |-> n % LIMB]

U32Mul10(v) ==
    LET lo == v.lo * 10
        hi == v.hi * 10 + lo \div LIMB
    IN [val |-> [hi |-> hi % LIMB, lo |-> lo % LIMB], overflow |-> hi >= LIMB]

U32Add(r, k) ==
    LET lo == r.val.lo + k
        hi == r.val.hi + lo \div LIMB
    IN [val |-> [hi |-> hi % LIMB, lo |-> lo % LIMB], overflow |-> r.overflow \/ hi >= LIMB]

(* score as calculate_threat_score (policy.rs 188-210) leaves it before  *)
(* score.min(100), with every += wrapping.                               *)
threat_score_u32(p) ==
    LET s0 == U32Mul10(U32(p.metrics.failed_attempts_24h))
        s1 == IF p.metrics.unusual_hour_access THEN U32Add(s0, 20) ELSE s0
        s2 == IF p.metrics.rapid_access_attempts THEN U32Add(s1, 30) ELSE s1
    IN IF p.metrics.new_device_detected THEN U32Add(s2, 15) ELSE s2

(* One of the u32 operations overflows: a build with overflow checks     *)
(* panics there, a build without them goes on with the wrapped value.    *)
threat_score_overflows(p) == threat_score_u32(p).overflow

Max(x, y) == IF x > y THEN x ELSE y

calculate_threat_score(p) ==
    LET score == threat_score_u32(p).val
    IN IF score.hi > 0 THEN 100 ELSE Min(score.lo, 100)

update_threat_level(p) == [p EXCEPT !.threat_level = from_score(calculate_threat_score(p))]

(***************************************************************************)
(* VaultBrain (brain.rs 70-108).                                           *)
(*   events_len              the length of the events deque                *)
(*   profile                 hourly_access, the histogram that             *)
(*                           check_and_update_policy reads                 *)
(*   policy, lockdown_active, lockdown_started, last_success               *)
(*   brain_failed_attempts   VaultBrain.failed_attempts                    *)
(*   events_owner            the thread that holds the events lock across  *)
(*                           calls, 0 for none                             *)
(*   bpc[t]                  "idle", or where thread t is stopped          *)
(*   now, ticks              the clock and how often it was advanced       *)
(*   blast                   the last call: its name, event and outcome,   *)
(*                           and failed_attempts and lockdown_active       *)
(*                           before it                                     *)
(***************************************************************************)
VARIABLES events_len, profile, policy, lockdown_active, lockdown_started,
          brain_failed_attempts, last_success, events_owner, bpc, now, ticks, blast

brain_vars == <<events_len, profile, policy, lockdown_active, lockdown_started,
                brain_failed_attempts, last_success, events_owner, bpc, now, ticks,
                blast>>

max_events == 1000
MaxEvents == 4
MaxTicks == 2
Hours == 0..23
TickDeltas == {1, 300, 3600}

NoEvent == [event_type |-> "", success |-> FALSE, timestamp |-> 0]

BLast(op, ev, ret) ==
    [op |-> op, ev |-> ev, ret |-> ret,
     pre_failed |-> brain_failed_attempts, pre_active |-> lockdown_active]

(* VaultBrain::new (brain.rs 97-108). *)
BrainInit ==
    /\ events_len = 0
    /\ profile = [hourly_access |-> [h \in Hours |-> 0]]
    /\ policy = AutoPolicyDefault
    /\ lockdown_active = FALSE
    /\ lockdown_started = None
    /\ brain_failed_attempts = 0
    /\ last_success = None
    /\ events_owner = 0
    /\ bpc = [t \in Threads |-> "idle"]
    /\ now = 0
    /\ ticks = 0
    /\ blast = [op |-> "new", ev |-> NoEvent, ret |-> "returned",
                pre_failed |-> 0, pre_active |-> FALSE]

(* VaultBrain::update_profile (brain.rs 142-159). *)
update_profile(ev) ==
    [profile EXCEPT !.hourly_access[hour_of(ev.timestamp)] = @ + 1]

RECURSIVE SumTo(_, _)
SumTo(f, n) == IF n < 0 THEN 0 ELSE f[n] + SumTo(f, n - 1)

(* record_event's counters (brain.rs 124-129). *)
CountFailed(ev) ==
    IF ev.success THEN 0
    ELSE IF ev.event_type = "Unlock" THEN brain_failed_attempts + 1
    ELSE brain_failed_attempts

(* A faulty variant of MarkSuccess: the clock instead of the event's time. *)
MarkSuccess_Now(ev) == IF ev.success THEN Some(now) ELSE last_success

MarkSuccess(ev) == IF ev.success THEN Some(ev.timestamp) ELSE last_success

(* check_and_update_policy past the lockdown test (brain.rs 173-187). *)
UpdateMetrics(prof, failed) ==
    LET avg_access == SumTo(prof.hourly_access, 23) \div 24
        is_unusual == prof.hourly_access[hour_of(now)] < avg_access \div 2
    IN update_threat_level(
           [policy EXCEPT !.metrics.failed_attempts_24h = failed,
                          !.metrics.unusual_hour_access = is_unusual])

(***************************************************************************)
(* VaultBrain::record_event (brain.rs 117-139) with the calls it makes:    *)
(* check_and_update_policy (162-188) and enter_lockdown (191-205).  The    *)
(* events write guard taken at line 118 lives to the end of the call.      *)
(* When the failure count has reached policy.max_failed_attempts,          *)
(* check_and_update_policy calls enter_lockdown, which sets the lockdown   *)
(* cells and calls record_event again: the thread then waits at line 118   *)
(* for the guard it holds itself (parking_lot's RwLock is not reentrant),  *)
(* for ever.  entered says that the call comes from enter_lockdown, which  *)
(* has set the lockdown cells before it.                                   *)
(***************************************************************************)
RecordEventCall(t, ev, entered, op) ==
    LET failed == CountFailed(ev)
        prof == update_profile(ev)
        locks == failed >= policy.max_failed_attempts
    IN IF events_owner # 0
       THEN /\ bpc' = [bpc EXCEPT ![t] = "waiting"]
            /\ lockdown_active' = IF entered THEN TRUE ELSE lockdown_active
            /\ lockdown_started' = IF entered THEN Some(now) ELSE lockdown_started
            /\ blast' = BLast(op, ev, "waiting")
            /\ UNCHANGED <<events_len, profile, policy, brain_failed_attempts,
                           last_success, events_owner>>
       ELSE /\ profile' = prof
            /\ brain_failed_attempts' = failed
            /\ last_success' = MarkSuccess(ev)
            /\ events_len' = IF events_len >= max_events THEN events_len
                             ELSE events_len + 1
            /\ lockdown_active' = IF entered \/ locks THEN TRUE ELSE lockdown_active
            /\ lockdown_started' = IF entered \/ locks THEN Some(now)
                                   ELSE lockdown_started
            /\ IF locks
               THEN /\ events_owner' = t
                    /\ bpc' = [bpc EXCEPT ![t] = "blocked"]
                    /\ blast' = BLast(op, ev, "blocked")
                    /\ UNCHANGED policy
               ELSE /\ policy' = UpdateMetrics(prof, failed)
                    /\ blast' = BLast(op, ev, "returned")
                    /\ UNCHANGED <<events_owner, bpc>>

RecordEvent(t, ev) ==
    /\ bpc[t] = "idle"
    /\ events_len < MaxEvents
    /\ RecordEventCall(t, ev, FALSE, "record_event")
    /\ UNCHANGED <<now, ticks>>

(* VaultBrain::enter_lockdown called by the application (brain.rs 191-205). *)
EnterLockdown(t) ==
    /\ bpc[t] = "idle"
    /\ events_len < MaxEvents
    /\ RecordEventCall(t, [event_type |-> "Lockdown", success |-> FALSE,
                           timestamp |-> now], TRUE, "enter_lockdown")
    /\ UNCHANGED <<now, ticks>>

(***************************************************************************)
(* VaultBrain::is_lockdown_active and exit_lockdown (brain.rs 208-236).    *)
(***************************************************************************)
(* A faulty variant of LockdownExpired: expiry already at the limit. *)
LockdownExpired_AtLimit ==
    /\ IsSome(lockdown_started)
    /\ now - lockdown_started[1] >= policy.lockout_seconds

LockdownExpired ==
    /\ IsSome(lockdown_started)
    /\ now - lockdown_started[1] > policy.lockout_seconds

is_lockdown_active == lockdown_active /\ ~LockdownExpired

exit_lockdown ==
    /\ lockdown_active' = FALSE
    /\ lockdown_started' = None
    /\ brain_failed_attempts' = 0

LazyExit ==
    IF lockdown_active /\ LockdownExpired
    THEN exit_lockdown
    ELSE UNCHANGED <<lockdown_active, lockdown_started, brain_failed_attempts>>

BoolStr(b) == IF b THEN "true" ELSE "false"

IsLockdownActive(t) ==
    /\ bpc[t] = "idle"
    /\ LazyExit
    /\ blast' = BLast("is_lockdown_active", NoEvent, BoolStr(is_lockdown_active))
    /\ UNCHANGED <<events_len, profile, policy, last_success, events_owner, bpc,
                   now, ticks>>

ExitLockdown(t) ==
    /\ bpc[t] = "idle"
    /\ exit_lockdown
    /\ blast' = BLast("exit_lockdown", NoEvent, "returned")
    /\ UNCHANGED <<events_len, profile, policy, last_success, events_owner, bpc,
                   now, ticks>>

(***************************************************************************)
(* VaultBrain::is_access_allowed (brain.rs 239-258).                       *)
(***************************************************************************)
(* A faulty variant of AccessGate: the threat level is looked at first. *)
AccessGate_ThreatFirst(active) ==
    IF policy.threat_level = "Critical" THEN "ThreatDetected"
    ELSE IF active THEN "LockdownActive"
    ELSE IF ~is_access_allowed_now(policy, now) THEN "PolicyViolation"
    ELSE "Ok"

AccessGate(active) ==
    IF active THEN "LockdownActive"
    ELSE IF ~is_access_allowed_now(policy, now) THEN "PolicyViolation"
    ELSE IF policy.threat_level = "Critical" THEN "ThreatDetected"
    ELSE "Ok"

IsAccessAllowed(t) ==
    /\ bpc[t] = "idle"
    /\ LazyExit
    /\ blast' = BLast("is_access_allowed", NoEvent, AccessGate(is_lockdown_active))
    /\ UNCHANGED <<events_len, profile, policy, last_success, events_owner, bpc,
                   now, ticks>>

(***************************************************************************)
(* VaultBrain::set_policy (brain.rs 280-282) with the policies of          *)
(* policy.rs and two made from the default: one that allows hour 1 only   *)
(* and is Critical, one whose metrics report rapid attempts and a new      *)
(* device.                                                                 *)
(***************************************************************************)
NightPolicy ==
    [AutoPolicyDefault EXCEPT !.allowed_hours = Some({1}), !.threat_level = "Critical"]

SuspectPolicy ==
    [AutoPolicyDefault EXCEPT !.metrics.rapid_access_attempts = TRUE,
                              !.metrics.new_device_detected = TRUE]

Policies == {AutoPolicyDefault, high_security, NightPolicy, SuspectPolicy}

SetPolicy(t, p) ==
    /\ bpc[t] = "idle"
    /\ policy # p
    /\ policy' = p
    /\ blast' = BLast("set_policy", NoEvent, "returned")
    /\ UNCHANGED <<events_len, profile, lockdown_active, lockdown_started,
                   brain_failed_attempts, last_success, events_owner, bpc, now, ticks>>

(* The clock advances. *)
Tick(d) ==
    /\ ticks < MaxTicks
    /\ now' = now + d
    /\ ticks' = ticks + 1
    /\ blast' = BLast("tick", NoEvent, "returned")
    /\ UNCHANGED <<events_len, profile, policy, lockdown_active, lockdown_started,
                   brain_failed_attempts, last_success, events_owner, bpc>>

EventTypes == {"Unlock", "Lock"}
Events(times) ==
    [event_type : EventTypes, success : BOOLEAN, timestamp : times]

(***************************************************************************)
(* The files of the vault in the hands of somebody else: a byte of         *)
(* photos/<id>.enc is changed behind the vault's back.                     *)
(*   pristine[id]  the bytes import_photo wrote, kept from the first       *)
(*                 change of the file on                                   *)
(*   tampers       how many changes were made                              *)
(***************************************************************************)
VARIABLES pristine, tampers

tamper_vars == <<pristine, tampers>>

MaxTampers == 2

TamperInit ==
    /\ pristine = [i \in PhotoIds |-> None]
    /\ tampers = 0

Flip(b) == IF Len(b) = 2 /\ b[1] = "flipped" THEN b[2] ELSE <<"flipped", b>>

TamperOffsets(bytes) == {1, NONCE_LEN, NONCE_LEN + 1, Len(bytes)}

Tamper(id, off) ==
    /\ tampers < MaxTampers
    /\ IsSome(photos_dir[id])
    /\ off \in TamperOffsets(photos_dir[id][1])
    /\ photos_dir' = [photos_dir EXCEPT ![id] = Some([@[1] EXCEPT ![off] = Flip(@)])]
    /\ pristine' = IF IsSome(pristine[id]) THEN pristine
                   ELSE [pristine EXCEPT ![id] = photos_dir[id]]
    /\ tampers' = tampers + 1
    /\ UNCHANGED <<mem_vars, manifest_enc, thumbs_dir, index_db, next_id, vlast,
                   imported, wrong_checked>>

(***************************************************************************)
(* Key rotation (alfa_photos_vault/src/rotation.rs).  Times are the        *)
(* seconds of the clock now; DAY is Duration::days(1).                     *)
(*   rot            RotationManager.state of the live manager, None when   *)
(*                  the process holds no manager                           *)
(*   rotation_json  db/rotation.json: None, or Some(its bytes)             *)
(*   rlast          the last call: its name, whether it returned Ok, the   *)
(*                  epoch or the flag it returned, and epochs_seen before  *)
(*   epochs_seen    history variable: every epoch value that rotate() has  *)
(*                  returned or that a record of epoch_history has held    *)
(***************************************************************************)
VARIABLES rot, rotation_json, rlast, epochs_seen

rot_vars == <<rot, rotation_json, rlast, epochs_seen>>

MaxEpoch == 4
DAY == 86400

RotationPolicyDefault ==
    [rotation_interval_days |-> 90, auto_rotate |-> TRUE, warning_days |-> 7,
     keep_epochs |-> 3]

(* The policies of the tests (rotation.rs 244-262) and one that keeps no epoch. *)
RotationPolicies ==
    {RotationPolicyDefault,
     [RotationPolicyDefault EXCEPT !.rotation_interval_days = 0, !.keep_epochs = 2],
     [RotationPolicyDefault EXCEPT !.rotation_interval_days = 1, !.keep_epochs = 0]}

RotationState_new(p, t) ==
    [current_epoch |-> 1, last_rotation |-> t,
     next_rotation |-> t + p.rotation_interval_days * DAY,
     policy |-> p, epoch_history |-> <<>>]

needs_rotation(st, t) == t >= st.next_rotation

(* A faulty variant of TrimHistory: the newest records are removed. *)
RECURSIVE TrimHistory_Newest(_, _)
TrimHistory_Newest(h, keep) ==
    IF Len(h) > keep THEN TrimHistory_Newest(SubSeq(h, 1, Len(h) - 1), keep) ELSE h

(* The loop of rotation.rs 107-109. *)
RECURSIVE TrimHistory(_, _)
TrimHistory(h, keep) ==
    IF Len(h) > keep THEN TrimHistory(Tail(h), keep) ELSE h

RotationState_rotate(st, t) ==
    LET record == [epoch |-> st.current_epoch, started |-> st.last_rotation, ended |-> t]
    IN [st EXCEPT !.epoch_history = TrimHistory(Append(@, record), st.policy.keep_epochs),
                  !.current_epoch = @ + 1,
                  !.last_rotation = t,
                  !.next_rotation = t + st.policy.rotation_interval_days * DAY]

(* RotationManager::save (rotation.rs 152-162): std::fs::write creates or  *)
(* truncates the file and writes the bytes.  fail = "create": the          *)
(* directory or the file cannot be opened, the file stays as it was;       *)
(* fail = "write": the write stops after the truncation.                   *)
SaveFails == {"none", "create", "write"}

rotation_save(st, fail) ==
    IF fail = "none" THEN [ok |-> TRUE, disk |-> Some(to_json("RotationState", st))]
    ELSE IF fail = "create" THEN [ok |-> FALSE, disk |-> rotation_json]
    ELSE [ok |-> FALSE, disk |-> Some(<<>>)]

RLast(op, ok, epoch, flag) ==
    [op |-> op, ok |-> ok, epoch |-> epoch, flag |-> flag, pre_seen |-> epochs_seen]

(* The vault root after PhotoVault::create, before the first manager. *)
RotInit ==
    /\ rot = None
    /\ rotation_json = None
    /\ rlast = [op |-> "", ok |-> TRUE, epoch |-> 0, flag |-> FALSE, pre_seen |-> {}]
    /\ epochs_seen = {}

(* RotationManager::load_or_create (rotation.rs 130-149) by a new process. *)
RotLoadOrCreate(fail) ==
    LET fresh == rotation_json = None
        loaded == IF fresh THEN Ok(RotationState_new(RotationPolicyDefault, now))
                  ELSE from_json("RotationState", rotation_json[1])
        sv == rotation_save(loaded.val, fail)
    IN IF ~loaded.ok
       THEN /\ rot' = None
            /\ rlast' = RLast("load", FALSE, 0, FALSE)
            /\ UNCHANGED <<rotation_json, epochs_seen>>
       ELSE /\ rot' = IF sv.ok THEN Some(loaded.val) ELSE None
            /\ rotation_json' = sv.disk
            /\ rlast' = RLast(IF fresh THEN "new" ELSE "load", sv.ok,
                              loaded.val.current_epoch,
                              loaded.val.next_rotation
                                  = loaded.val.last_rotation
                                      + loaded.val.policy.rotation_interval_days * DAY
                              /\ loaded.val.epoch_history = <<>>)
            /\ UNCHANGED epochs_seen

(* RotationManager::rotate (rotation.rs 185-196). *)
RotRotateAs(op, fail) ==
    /\ IsSome(rot)
    /\ rot[1].current_epoch < MaxEpoch
    /\ LET st == RotationState_rotate(rot[1], now)
           sv == rotation_save(st, fail)
       IN /\ rot' = Some(st)
          /\ rotation_json' = sv.disk
          /\ rlast' = RLast(op, sv.ok, st.current_epoch, FALSE)
          /\ epochs_seen' = epochs_seen
                              \cup {rot[1].current_epoch}
                              \cup (IF sv.ok THEN {st.current_epoch} ELSE {})

RotRotate(fail) == RotRotateAs("rotate", fail)

(* RotationManager::needs_rotation (rotation.rs 165-167). *)
RotNeedsRotation ==
    /\ IsSome(rot)
    /\ rlast' = RLast("needs_rotation", TRUE, rot[1].current_epoch,
                      needs_rotation(rot[1], now))
    /\ UNCHANGED <<rot, rotation_json, epochs_seen>>

(* RotationManager::update_policy (rotation.rs 213-224). *)
RotUpdatePolicy(p, fail) ==
    /\ IsSome(rot)
    /\ rot[1].policy # p
    /\ LET st == [rot[1] EXCEPT !.policy = p,
                                !.next_rotation =
                                    rot[1].last_rotation + p.rotation_interval_days * DAY]
           sv == rotation_save(st, fail)
       IN /\ rot' = Some(st)
          /\ rotation_json' = sv.disk
          /\ rlast' = RLast("update_policy", sv.ok, st.current_epoch, FALSE)
    /\ UNCHANGED epochs_seen

(***************************************************************************)
(* RotationManager::rotate called by several threads on one manager        *)
(* (rotation.rs 185-196).  The state is behind one RwLock: rotate changes  *)
(* it under the write guard and releases the guard before save(); save     *)
(* (152-162) takes the read guard and keeps it while it serialises the     *)
(* state and writes the file, so no rotate runs while a save is writing,   *)
(* and the saves of two threads may overlap.                               *)
(*   RcRotate    state.write(), RotationState::rotate                      *)
(*   RcSaveOpen  state.read(), serialisation, create_dir_all and the       *)
(*               opening of the file, which truncates it                   *)
(*   RcSaveWrite the write of the bytes, the end of the call               *)
(*   rc_pc[t]    where thread t stands in rotate                           *)
(*   rc_epoch[t] the epoch its RotationState::rotate returned              *)
(*   rc_data[t]  the bytes it serialised                                   *)
(*   rc_rets     what the calls made on the manager returned, in the order *)
(*               of their return                                           *)
(*   rc_initial  current_epoch before the first of them                    *)
(***************************************************************************)
VARIABLES rc_pc, rc_epoch, rc_data, rc_rets, rc_initial

rc_vars == <<rc_pc, rc_epoch, rc_data, rc_rets, rc_initial>>

RcInit ==
    /\ rc_pc = [t \in Threads |-> "idle"]
    /\ rc_epoch = [t \in Threads |-> 0]
    /\ rc_data = [t \in Threads |-> <<>>]
    /\ rc_rets = <<>>
    /\ rc_initial = 0

(* load_or_create by the process whose threads share the manager. *)
RcLoadOrCreate ==
    /\ rot = None
    /\ RotLoadOrCreate("none")
    /\ rc_initial' = rot'[1].current_epoch
    /\ UNCHANGED <<rc_pc, rc_epoch, rc_data, rc_rets>>

RcRotate(t) ==
    /\ IsSome(rot)
    /\ rc_pc[t] = "idle"
    /\ \A u \in Threads : rc_pc[u] # "write"
    /\ rot[1].current_epoch < MaxEpoch
    /\ LET st == RotationState_rotate(rot[1], now)
       IN /\ rot' = Some(st)
          /\ rc_epoch' = [rc_epoch EXCEPT ![t] = st.current_epoch]
    /\ rc_pc' = [rc_pc EXCEPT ![t] = "save"]
    /\ UNCHANGED <<rotation_json, rlast, epochs_seen, rc_data, rc_rets, rc_initial>>

RcSaveOpen(t, fail) ==
    /\ rc_pc[t] = "save"
    /\ fail # "write"
    /\ IF fail = "create"
       THEN /\ rc_pc' = [rc_pc EXCEPT ![t] = "idle"]
            /\ rc_rets' = Append(rc_rets, Err("IoError"))
            /\ UNCHANGED <<rotation_json, rc_data>>
       ELSE /\ rc_pc' = [rc_pc EXCEPT ![t] = "write"]
            /\ rc_data' = [rc_data EXCEPT ![t] = to_json("RotationState", rot[1])]
            /\ rotation_json' = Some(<<>>)
            /\ UNCHANGED rc_rets
    /\ UNCHANGED <<rot, rlast, epochs_seen, rc_epoch, rc_initial>>

RcSaveWrite(t, fail) ==
    /\ rc_pc[t] = "write"
    /\ fail # "create"
    /\ rc_pc' = [rc_pc EXCEPT ![t] = "idle"]
    /\ rotation_json' = IF fail = "write" THEN rotation_json ELSE Some(rc_data[t])
    /\ rc_rets' = Append(rc_rets, IF fail = "write" THEN Err("IoError") ELSE Ok(rc_epoch[t]))
    /\ UNCHANGED <<rot, rlast, epochs_seen, rc_epoch, rc_data, rc_initial>>

(***************************************************************************)
(* PhotoVaultApi::rotate_keys (api.rs 274-278): "This would re-encrypt all *)
(* files with new keys.  For now, just update rotation state."  new_pin is *)
(* not used: the keys in memory and the photo files stay as they are.      *)
(***************************************************************************)
(* A faulty variant: the keys of new_pin are installed, the files are not  *)
(* encrypted again.                                                        *)
rotate_keys_vault_Rekey(new_pin) ==
    [keys |-> IF IsSome(keys) THEN Some(from_master_seed(derive_seed_from_pin(new_pin)))
              ELSE keys,
     photos_dir |-> photos_dir]

rotate_keys_vault(new_pin) == [keys |-> keys, photos_dir |-> photos_dir]

RotateKeys(new_pin, fail) ==
    /\ RotRotateAs("rotate_keys", fail)
    /\ keys' = rotate_keys_vault(new_pin).keys
    /\ photos_dir' = rotate_keys_vault(new_pin).photos_dir
    /\ UNCHANGED <<state, index, thumbs, ai, failed_attempts, config, manifest_enc,
                   thumbs_dir, index_db, next_id, vlast, imported, wrong_checked>>

(***************************************************************************)
(* Signed snapshots (alfa_keyvault/src/snapshot.rs).  SHA-256, HMAC-SHA256 *)
(* and HKDF are ideal: a digest is the term of what was fed to it.         *)
(* key_usages is a HashMap: a function from purposes to counts together    *)
(* with the order in which this instance of the map iterates, which the    *)
(* library leaves unspecified and which differs from instance to instance; *)
(* an order is a sequence of all purposes, and a map iterates over its     *)
(* keys as they come in it.                                                *)
(***************************************************************************)
Seeds == {"seed42", "seed99"}
SignSeed == "seed42"

KdfParamsDefault ==
    [algorithm |-> "argon2id", time_cost |-> 3, memory_cost_kib |-> 65536,
     parallelism |-> 2]

NoUsages == [k \in {} |-> 0]
TwoUsages == [k \in {"ALFA:config", "ALFA:mail"} |-> IF k = "ALFA:mail" THEN 2 ELSE 1]
UsageMaps == {NoUsages, TwoUsages}

IterOrders == {<<"ALFA:config", "ALFA:mail">>, <<"ALFA:mail", "ALFA:config">>}

IterKeys(m, order) == SelectSeq(order, LAMBDA k : k \in DOMAIN m)

PqxSnapshot_new(epoch, kdf_params, key_usages, prev_hash, t) ==
    [version |-> "4.0-PQX", epoch |-> epoch, timestamp |-> t,
     kdf_params |-> kdf_params, key_usages |-> key_usages, prev_hash |-> prev_hash,
     signature |-> <<>>, metadata |-> [k \in {} |-> ""]]

(* A faulty variant of compute_hash: prev_hash is left out of the digest. *)
compute_hash_NoPrev(s, order) ==
    <<"sha256",
      <<s.version, s.epoch, s.timestamp, s.kdf_params.algorithm,
        s.kdf_params.time_cost, s.kdf_params.memory_cost_kib>>
      \o [i \in 1..Len(IterKeys(s.key_usages, order)) |->
             <<IterKeys(s.key_usages, order)[i],
               s.key_usages[IterKeys(s.key_usages, order)[i]]>>]>>

compute_hash(s, order) ==
    <<"sha256",
      <<s.version, s.epoch, s.timestamp, s.kdf_params.algorithm,
        s.kdf_params.time_cost, s.kdf_params.memory_cost_kib>>
      \o [i \in 1..Len(IterKeys(s.key_usages, order)) |->
             <<IterKeys(s.key_usages, order)[i],
               s.key_usages[IterKeys(s.key_usages, order)[i]]>>]
      \o (IF IsSome(s.prev_hash) THEN s.prev_hash ELSE <<>>)>>

(* A faulty variant of derive_subkey_fixed: the seed is not used. *)
derive_subkey_fixed_NoSeed(seed, purpose) == <<"hkdf-expand", "", purpose>>

derive_subkey_fixed(seed, purpose) == <<"hkdf-expand", seed, purpose>>

hex_encode(bytes) == <<"hex", bytes>>

hex_decode(str) == IF Len(str) = 2 /\ str[1] = "hex" THEN Some(str[2]) ELSE None

snapshot_mac(s, order, seed) ==
    <<"hmac-sha256", derive_subkey_fixed(seed, "ALFA:snapshot:sign"),
      compute_hash(s, order)>>

sign(s, order, seed) == [s EXCEPT !.signature = hex_encode(snapshot_mac(s, order, seed))]

(* hex::decode(..).unwrap_or_default(): what is no hex string gives no bytes. *)
verify(s, order, seed) ==
    LET expected == IF IsSome(hex_decode(s.signature)) THEN hex_decode(s.signature)[1]
                    ELSE <<>>
    IN expected = snapshot_mac(s, order, seed)

(***************************************************************************)
(* SnapshotManager (snapshot.rs 143-333).                                  *)
(*   sm             the manager: current_epoch, last_hash, max_snapshots;  *)
(*                  None before SnapshotManager::new                       *)
(*   snap_files     the snapshots directory: a set of files, each with its *)
(*                  name (epoch and time stamp) and its JSON               *)
(*   snap           the snapshot that the last create_snapshot made, with  *)
(*                  the order of its map; None before the first            *)
(*   snap_altered   the field of snap that was changed since it was        *)
(*                  signed, "" for none                                    *)
(*   overwritten    the names of the files whose prev_hash was overwritten *)
(*   slast          the last call and what it returned                     *)
(***************************************************************************)
VARIABLES sm, snap_files, snap, snap_altered, overwritten, slast

snap_vars == <<sm, snap_files, snap, snap_altered, overwritten, slast>>

MaxSnapshots == 4

NoChain == [total |-> 0, valid |-> 0, invalid |-> <<>>, chain_intact |-> TRUE]

SLast(op, seed, ok, ret, chain) ==
    [op |-> op, seed |-> seed, ok |-> ok, ret |-> ret, chain |-> chain,
     pre_snap |-> snap, pre_hash |-> IF IsSome(sm) THEN sm[1].last_hash ELSE None]

SnapInit ==
    /\ sm = None
    /\ snap_files = {}
    /\ snap = None
    /\ snap_altered = ""
    /\ overwritten = {}
    /\ slast = [op |-> "", seed |-> "", ok |-> TRUE, ret |-> FALSE, chain |-> NoChain,
                pre_snap |-> None, pre_hash |-> None]

(* SnapshotManager::new (snapshot.rs 158-168) on an empty directory. *)
SnapNew(max_snapshots) ==
    /\ sm = None
    /\ sm' = Some([current_epoch |-> 0, last_hash |-> None,
                   max_snapshots |-> max_snapshots])
    /\ slast' = SLast("new", "", TRUE, FALSE, NoChain)
    /\ UNCHANGED <<snap_files, snap, snap_altered, overwritten>>

(* The process ends and a later one calls SnapshotManager::new (snapshot.rs *)
(* 158-168) on the same directory: the manager starts at epoch 0 with no   *)
(* last_hash whatever the directory holds.                                 *)
SnapRestart(max_snapshots) ==
    /\ IsSome(sm)
    /\ sm' = Some([current_epoch |-> 0, last_hash |-> None,
                   max_snapshots |-> max_snapshots])
    /\ snap' = None
    /\ snap_altered' = ""
    /\ slast' = SLast("new", "", TRUE, FALSE, NoChain)
    /\ UNCHANGED <<snap_files, overwritten>>

(* The file names order as their epochs and then their stamps do. *)
NameBefore(a, b) == a[1] < b[1] \/ (a[1] = b[1] /\ a[2] <= b[2])

RECURSIVE SortByName(_)
SortByName(files) ==
    IF files = {} THEN <<>>
    ELSE LET first == CHOOSE f \in files : \A g \in files : NameBefore(f.name, g.name)
         IN <<first>> \o SortByName(files \ {first})

EpochOf(f) == from_json("PqxSnapshot", f.data).val.epoch

RECURSIVE SortByEpoch(_)
SortByEpoch(files) ==
    IF files = {} THEN <<>>
    ELSE LET first == CHOOSE f \in files : \A g \in files : EpochOf(f) <= EpochOf(g)
         IN <<first>> \o SortByEpoch(files \ {first})

(* cleanup_old_snapshots (snapshot.rs 302-327). *)
cleanup_old_snapshots(files, max_snapshots) ==
    IF Cardinality(files) <= max_snapshots THEN files
    ELSE LET entries == SortByName(files)
             to_remove == Cardinality(files) - max_snapshots
         IN {entries[i] : i \in (to_remove + 1)..Len(entries)}

(* SnapshotManager::create_snapshot (snapshot.rs 171-202).  order is the   *)
(* iteration order of the map that is passed in; fail = "save" is the      *)
(* write of the file failing.                                              *)
SnapCreateFails == {"none", "save"}

SnapCreate(seed, kdf_params, key_usages, order, fail) ==
    /\ IsSome(sm)
    /\ sm[1].current_epoch < MaxSnapshots
    /\ LET epoch == sm[1].current_epoch + 1
           snapshot == sign(PqxSnapshot_new(epoch, kdf_params, key_usages,
                                            sm[1].last_hash, now), order, seed)
           file == [name |-> <<epoch, now>>, data |-> to_json("PqxSnapshot", snapshot)]
       IN /\ sm' = Some([sm[1] EXCEPT !.current_epoch = epoch,
                                      !.last_hash = Some(compute_hash(snapshot, order))])
          /\ snap' = Some([s |-> snapshot, order |-> order, seed |-> seed])
          /\ snap_altered' = ""
          /\ snap_files' =
                IF fail = "save" THEN snap_files
                ELSE cleanup_old_snapshots(
                         {f \in snap_files : f.name # file.name} \cup {file},
                         sm[1].max_snapshots)
          /\ slast' = SLast("create_snapshot", seed, fail = "none", FALSE, NoChain)
    /\ UNCHANGED overwritten

(* list_snapshots (snapshot.rs 244-263): the loadable files, sorted by the *)
(* epoch they hold; here from the lowest epoch to the highest, as          *)
(* verify_chain walks them.                                                *)
list_snapshots(files) ==
    SortByEpoch({f \in files : from_json("PqxSnapshot", f.data).ok})

(* verify_chain (snapshot.rs 266-299).  orders[i] is the iteration order   *)
(* of the map of the i-th snapshot as PqxSnapshot::load has built it.      *)
RECURSIVE ChainFold(_, _, _, _, _, _)
ChainFold(infos, orders, seed, i, expected_prev_hash, result) ==
    IF i > Len(infos) THEN result
    ELSE LET snapshot == from_json("PqxSnapshot", infos[i].data).val
         IN IF ~verify(snapshot, orders[i], seed)
            THEN ChainFold(infos, orders, seed, i + 1, expected_prev_hash,
                           [result EXCEPT !.invalid = Append(@, snapshot.epoch),
                                          !.chain_intact = FALSE])
            ELSE ChainFold(infos, orders, seed, i + 1,
                           Some(compute_hash(snapshot, orders[i])),
                           [result EXCEPT
                               !.valid = @ + 1,
                               !.chain_intact =
                                   IF IsSome(expected_prev_hash)
                                      /\ snapshot.prev_hash # expected_prev_hash
                                   THEN FALSE ELSE @])

verify_chain(files, orders, seed) ==
    LET infos == list_snapshots(files)
    IN ChainFold(infos, orders, seed, 1, None,
                 [total |-> Len(infos), valid |-> 0, invalid |-> <<>>,
                  chain_intact |-> TRUE])

SnapVerifyChain(seed, orders) ==
    /\ IsSome(sm)
    /\ slast' = SLast("verify_chain", seed, TRUE, FALSE,
                      verify_chain(snap_files, orders, seed))
    /\ UNCHANGED <<sm, snap_files, snap, snap_altered, overwritten>>

(* PqxSnapshot::verify (snapshot.rs 111-125) on the snapshot in memory. *)
SnapVerify(seed) ==
    /\ IsSome(snap)
    /\ slast' = SLast("verify", seed, TRUE, verify(snap[1].s, snap[1].order, seed), NoChain)
    /\ UNCHANGED <<sm, snap_files, snap, snap_altered, overwritten>>

(* The fields of PqxSnapshot are public (snapshot.rs 14-46): a holder of   *)
(* the snapshot in memory changes one of them without signing again.       *)
SnapFields ==
    {"version", "epoch", "timestamp", "algorithm", "time_cost", "memory_cost_kib",
     "parallelism", "key_usages", "prev_hash", "metadata"}

AlterField(s, field) ==
    IF field = "version" THEN [s EXCEPT !.version = "3.0"]
    ELSE IF field = "epoch" THEN [s EXCEPT !.epoch = @ + 1]
    ELSE IF field = "timestamp" THEN [s EXCEPT !.timestamp = @ + 1]
    ELSE IF field = "algorithm" THEN [s EXCEPT !.kdf_params.algorithm = "argon2i"]
    ELSE IF field = "time_cost" THEN [s EXCEPT !.kdf_params.time_cost = @ + 1]
    ELSE IF field = "memory_cost_kib" THEN [s EXCEPT !.kdf_params.memory_cost_kib = @ + 1]
    ELSE IF field = "parallelism" THEN [s EXCEPT !.kdf_params.parallelism = @ + 1]
    ELSE IF field = "key_usages"
    THEN [s EXCEPT !.key_usages = IF @ = NoUsages
                                  THEN [k \in {"ALFA:config"} |-> 1]
                                  ELSE [k \in DOMAIN @ |-> @[k] + 1]]
    ELSE IF field = "prev_hash"
    THEN [s EXCEPT !.prev_hash = IF IsSome(@) THEN None ELSE Some(<<"sha256", <<>>>>)]
    ELSE [s EXCEPT !.metadata = [k \in {"note"} |-> "x"]]

SnapAlter(field) ==
    /\ IsSome(snap)
    /\ snap_altered = ""
    /\ snap[1].s.signature # <<>>
    /\ snap' = Some([snap[1] EXCEPT !.s = AlterField(@, field)])
    /\ snap_altered' = field
    /\ slast' = SLast("alter", "", TRUE, FALSE, NoChain)
    /\ UNCHANGED <<sm, snap_files, overwritten>>

(* Somebody overwrites the prev_hash of a stored snapshot that has one. *)
SnapOverwritePrev(name) ==
    /\ overwritten = {}
    /\ \E f \in snap_files :
          /\ f.name = name
          /\ from_json("PqxSnapshot", f.data).ok
          /\ IsSome(from_json("PqxSnapshot", f.data).val.prev_hash)
          /\ snap_files' = (snap_files \ {f}) \cup
                {[f EXCEPT !.data =
                     to_json("PqxSnapshot",
                             AlterField(from_json("PqxSnapshot", f.data).val, "prev_hash"))]}
    /\ overwritten' = {name}
    /\ slast' = SLast("overwrite", "", TRUE, FALSE, NoChain)
    /\ UNCHANGED <<sm, snap, snap_altered>>

(***************************************************************************)
(* PhotoCrypto (photo_crypto.rs): the envelope                             *)
(*   MAGIC(8) | VERSION(1) | NONCE(12) | ciphertext and tag | HMAC(32)     *)
(* of one photo file.  The GCM tag binds the photo id as associated data;  *)
(* the HMAC is over everything before it and is spelled out as HMAC_SIZE   *)
(* elements, the first of which carries the digest.                        *)
(***************************************************************************)
MAGIC == [i \in 1..8 |-> <<"ALFAPHOT", i>>]
VERSION == 1
NONCE_SIZE == 12
TAG_SIZE == 16
HMAC_SIZE == 32
HEADER_SIZE == Len(MAGIC) + 1 + NONCE_SIZE
MIN_FILE_SIZE == HEADER_SIZE + TAG_SIZE + HMAC_SIZE

MaxGen == 2
PcPhotoId == "photo-1"

(* PhotoCrypto::new with the keys of generation g. *)
PhotoCrypto_new(g) == [master_key |-> <<"master_key", g>>, hmac_key |-> <<"hmac_key", g>>]

PhotoCrypto_derive_file_key(crypto, photo_id) ==
    <<"hkdf-expand", crypto.master_key, "ALFA:PHOTO:FILE:", photo_id>>

HmacBytes(crypto, data) ==
    [j \in 1..HMAC_SIZE |->
        IF j = 1 THEN compute_hmac(crypto.hmac_key, data) ELSE <<"mac", j>>]

encrypt_bytes(crypto, plaintext, photo_id, n) ==
    LET file_key == PhotoCrypto_derive_file_key(crypto, photo_id)
        output == MAGIC \o <<VERSION>> \o NonceBytes(n, NONCE_SIZE)
                    \o Seal(<<file_key, "aad", photo_id>>, n, plaintext)
    IN output \o HmacBytes(crypto, output)

(* A faulty variant of decrypt_bytes: the AEAD is opened before the HMAC *)
(* is compared.                                                         *)
decrypt_bytes_AeadFirst(crypto, data, photo_id) ==
    IF Len(data) < MIN_FILE_SIZE THEN Err("File too small")
    ELSE IF SubSeq(data, 1, 8) # MAGIC THEN Err("Invalid magic bytes")
    ELSE IF data[9] # VERSION THEN Err("Unsupported version")
    ELSE LET hmac_start == Len(data) - HMAC_SIZE
             body == SubSeq(data, 1, hmac_start)
             opened == Open(<<PhotoCrypto_derive_file_key(crypto, photo_id),
                              "aad", photo_id>>,
                            SubSeq(data, 10, 9 + NONCE_SIZE),
                            SubSeq(data, HEADER_SIZE + 1, hmac_start))
         IN IF ~opened.ok THEN Err("Decryption failed - wrong key or corrupted")
            ELSE IF SubSeq(data, hmac_start + 1, Len(data)) # HmacBytes(crypto, body)
            THEN Err("HMAC verification failed")
            ELSE opened

decrypt_bytes(crypto, data, photo_id) ==
    IF Len(data) < MIN_FILE_SIZE THEN Err("File too small")
    ELSE IF SubSeq(data, 1, 8) # MAGIC THEN Err("Invalid magic bytes")
    ELSE IF data[9] # VERSION THEN Err("Unsupported version")
    ELSE LET hmac_start == Len(data) - HMAC_SIZE
             body == SubSeq(data, 1, hmac_start)
         IN IF SubSeq(data, hmac_start + 1, Len(data)) # HmacBytes(crypto, body)
            THEN Err("HMAC verification failed")
            ELSE LET opened == Open(<<PhotoCrypto_derive_file_key(crypto, photo_id),
                                      "aad", photo_id>>,
                                    SubSeq(data, 10, 9 + NONCE_SIZE),
                                    SubSeq(data, HEADER_SIZE + 1, hmac_start))
                 IN IF opened.ok THEN opened
                    ELSE Err("Decryption failed - wrong key or corrupted")

(* verify_integrity (photo_crypto.rs 281-300) of the bytes of a file. *)
verify_integrity(crypto, file) ==
    IF ~IsSome(file) THEN Err("Io")
    ELSE LET data == file[1]
             hmac_start == Len(data) - HMAC_SIZE
         IN IF Len(data) < MIN_FILE_SIZE THEN Ok(FALSE)
            ELSE IF SubSeq(data, 1, 8) # MAGIC THEN Ok(FALSE)
            ELSE Ok(SubSeq(data, hmac_start + 1, Len(data))
                      = HmacBytes(crypto, SubSeq(data, 1, hmac_start)))

(***************************************************************************)
(* One photo file in the hands of PhotoCrypto.                             *)
(*   pc_file   the bytes of the file at path; None while there is no file  *)
(*   pc_gen    the generation of the keys the file was last encrypted with *)
(*             by a call that returned Ok                                  *)
(*   pc_plain  the photo that was stored                                   *)
(*   pc_step   where the running reencrypt call stands: "idle" (no call),  *)
(*             "created" (File::create has returned) or "written"          *)
(*             (write_all has returned)                                    *)
(*   pc_run    the running or last reencrypt call: the file before it, the *)
(*             new envelope, the generations of the old and the new keys   *)
(*   pc_last   the last call and its result; op "stop" is the process      *)
(*             stopping inside reencrypt                                   *)
(***************************************************************************)
VARIABLES pc_file, pc_gen, pc_plain, pc_step, pc_run, pc_last

pc_vars == <<pc_file, pc_gen, pc_plain, pc_step, pc_run, pc_last>>

NoRun == [before |-> <<>>, encrypted |-> <<>>, old |-> 0, new |-> 0]

PcInit ==
    /\ pc_file = None
    /\ pc_gen = 0
    /\ pc_plain = <<>>
    /\ pc_step = "idle"
    /\ pc_run = NoRun
    /\ pc_last = [op |-> "", ok |-> TRUE, err |-> ""]

PLast(op, res) == [op |-> op, ok |-> res.ok, err |-> res.err]

(* encrypt_photo (photo_crypto.rs 111-163) with the keys in use. *)
PcEncryptPhoto(plaintext, n) ==
    /\ pc_step = "idle"
    /\ pc_file' = Some(encrypt_bytes(PhotoCrypto_new(pc_gen), plaintext, PcPhotoId, n))
    /\ pc_plain' = plaintext
    /\ pc_last' = PLast("encrypt_photo", Ok(<<>>))
    /\ UNCHANGED <<pc_gen, pc_step, pc_run>>

(* decrypt_photo (photo_crypto.rs 173-183): fs::read and decrypt_bytes. *)
decrypt_photo(crypto, file, photo_id) ==
    IF ~IsSome(file) THEN Err("Io") ELSE decrypt_bytes(crypto, file[1], photo_id)

PcDecryptPhoto ==
    /\ pc_step = "idle"
    /\ pc_last' = PLast("decrypt_photo",
                        decrypt_photo(PhotoCrypto_new(pc_gen), pc_file, PcPhotoId))
    /\ UNCHANGED <<pc_file, pc_gen, pc_plain, pc_step, pc_run>>

(* reencrypt (photo_crypto.rs 303-316) up to the return of File::create in *)
(* encrypt_photo_overwrite (319-328): the old keys decrypt the file, the   *)
(* new keys encrypt the photo in memory, and File::create opens the file   *)
(* at path itself and truncates it.                                        *)
PcReencrypt(n, fail) ==
    /\ pc_step = "idle"
    /\ pc_gen < MaxGen
    /\ LET plaintext == decrypt_photo(PhotoCrypto_new(pc_gen), pc_file, PcPhotoId)
           encrypted == encrypt_bytes(PhotoCrypto_new(pc_gen + 1), plaintext.val,
                                      PcPhotoId, n)
       IN IF ~plaintext.ok
          THEN /\ pc_last' = PLast("reencrypt", plaintext)
               /\ UNCHANGED <<pc_file, pc_gen, pc_plain, pc_step, pc_run>>
          ELSE /\ pc_run' = [before |-> pc_file[1], encrypted |-> encrypted,
                             old |-> pc_gen, new |-> pc_gen + 1]
               /\ IF fail = "create"
                  THEN /\ pc_last' = PLast("reencrypt", Err("Io"))
                       /\ UNCHANGED <<pc_file, pc_gen, pc_plain, pc_step>>
                  ELSE /\ pc_file' = Some(<<>>)
                       /\ pc_step' = "created"
                       /\ pc_last' = PLast("File::create", Ok(<<>>))
                       /\ UNCHANGED <<pc_gen, pc_plain>>

(* write_all (photo_crypto.rs 329-330): all bytes, or an error after the   *)
(* first k of them.                                                        *)
PcWriteAll(k, fail) ==
    /\ pc_step = "created"
    /\ k < Len(pc_run.encrypted)
    /\ IF fail = "write"
       THEN /\ pc_file' = Some(SubSeq(pc_run.encrypted, 1, k))
            /\ pc_step' = "idle"
            /\ pc_last' = PLast("reencrypt", Err("Io"))
       ELSE /\ pc_file' = Some(pc_run.encrypted)
            /\ pc_step' = "written"
            /\ pc_last' = PLast("write_all", Ok(<<>>))
    /\ UNCHANGED <<pc_gen, pc_plain, pc_run>>

(* sync_all (photo_crypto.rs 331-332) and the return of reencrypt. *)
PcSyncAll(fail) ==
    /\ pc_step = "written"
    /\ pc_step' = "idle"
    /\ IF fail = "sync"
       THEN /\ pc_last' = PLast("reencrypt", Err("Io"))
            /\ UNCHANGED pc_gen
       ELSE /\ pc_last' = PLast("reencrypt", Ok(<<>>))
            /\ pc_gen' = pc_run.new
    /\ UNCHANGED <<pc_file, pc_plain, pc_run>>

(* The process stops inside reencrypt; the file stays as it is. *)
PcStop ==
    /\ pc_step # "idle"
    /\ pc_step' = "idle"
    /\ pc_last' = PLast("stop", Err("stopped"))
    /\ UNCHANGED <<pc_file, pc_gen, pc_plain, pc_run>>

(***************************************************************************)
(* decrypt_bytes on bytes of any origin (photo_crypto.rs 186-242).         *)
(*   db_data     the bytes on hand: an envelope made by encrypt_bytes, as  *)
(*               altered since                                             *)
(*   db_sealed   what encrypt_bytes was last given: plaintext, photo id    *)
(*               and the generation of the keys                            *)
(*   db_tampers  the alterations made to db_data since it was sealed       *)
(*   db_last     the last call: its bytes, photo id, keys and result       *)
(***************************************************************************)
VARIABLES db_data, db_sealed, db_tampers, db_last

db_vars == <<db_data, db_sealed, db_tampers, db_last>>

DbPhotoIds == {"photo-1", "photo-2"}
DbGens == {0, 1}
DbTampers == {"truncate", "magic", "version", "body", "hmac", "remac"}

DLast(op, g, data, photo_id, res) ==
    [op |-> op, g |-> g, data |-> data, photo_id |-> photo_id, res |-> res]

DbInit ==
    /\ db_data = <<>>
    /\ db_sealed = [plaintext |-> <<>>, photo_id |-> "", g |-> 0]
    /\ db_tampers = {}
    /\ db_last = DLast("", 0, <<>>, "", Ok(<<>>))

(* encrypt_bytes (photo_crypto.rs 245-278) with the keys of generation g. *)
DbEncryptBytes(g, plaintext, photo_id, n) ==
    /\ db_data' = encrypt_bytes(PhotoCrypto_new(g), plaintext, photo_id, n)
    /\ db_sealed' = [plaintext |-> plaintext, photo_id |-> photo_id, g |-> g]
    /\ db_tampers' = {}
    /\ db_last' = DLast("encrypt_bytes", g, plaintext, photo_id, Ok(db_data'))

(* The bytes are altered outside the program: cut below the minimum size,  *)
(* a byte of the magic, the version byte, a byte of the ciphertext or the  *)
(* last byte of the HMAC changed; "remac" is a holder of the HMAC key of   *)
(* generation 0 who recomputes the HMAC over the bytes before it.          *)
AlterBytes(data, kind) ==
    IF kind = "truncate" THEN SubSeq(data, 1, MIN_FILE_SIZE - 1)
    ELSE IF kind = "magic" THEN [data EXCEPT ![1] = <<"bad", 0>>]
    ELSE IF kind = "version" THEN [data EXCEPT ![Len(MAGIC) + 1] = VERSION + 1]
    ELSE IF kind = "body" THEN [data EXCEPT ![HEADER_SIZE + 1] = <<"bad", 0>>]
    ELSE IF kind = "hmac" THEN [data EXCEPT ![Len(data)] = <<"bad", 0>>]
    ELSE LET body == SubSeq(data, 1, Len(data) - HMAC_SIZE)
         IN body \o HmacBytes(PhotoCrypto_new(0), body)

DbTamper(kind) ==
    /\ Len(db_data) > HMAC_SIZE
    /\ db_data' = AlterBytes(db_data, kind)
    /\ db_tampers' = db_tampers \cup {kind}
    /\ db_last' = DLast("tamper", 0, db_data, "", Ok(<<>>))
    /\ UNCHANGED db_sealed

DbDecryptBytes(g, photo_id) ==
    /\ db_last' = DLast("decrypt_bytes", g, db_data, photo_id,
                        decrypt_bytes(PhotoCrypto_new(g), db_data, photo_id))
    /\ UNCHANGED <<db_data, db_sealed, db_tampers>>

(***************************************************************************)
(* Sealing the seed of the key vault (alfa_keyvault/src/crypto/aead.rs).   *)
(* A seed is SEED_LEN bytes; encrypt_seed returns the pair (nonce,         *)
(* ciphertext), kept here as the record [nonce, ciphertext].               *)
(***************************************************************************)
SEED_LEN == 32
AeadCiphers == {"Aes256Gcm", "XChaCha20Poly1305"}

nonce_len(cipher) == IF cipher = "Aes256Gcm" THEN NONCE_LEN ELSE XCHACHA_NONCE_LEN

SeedBytes(s) == [i \in 1..SEED_LEN |-> <<"seed", s, i>>]

encrypt_seed(seed, kek, cipher, n) ==
    [nonce |-> NonceBytes(n, nonce_len(cipher)), ciphertext |-> Seal(kek, n, seed)]

decrypt_seed(kek, nonce, ciphertext, cipher) ==
    IF Len(nonce) # nonce_len(cipher) THEN Err("Crypto")
    ELSE LET plaintext == Open(kek, nonce, ciphertext)
         IN IF ~plaintext.ok THEN Err("AuthFailed")
            ELSE IF Len(plaintext.val) # SEED_LEN THEN Err("Crypto")
            ELSE plaintext

(***************************************************************************)
(* A caller of the sealing functions of both crates.                       *)
(*   ae_box   what was last sealed: the function, the key, the cipher (of  *)
(*            encrypt_seed), the plaintext and the sealed record           *)
(*   ae_last  the last call: function, key, cipher and result              *)
(***************************************************************************)
VARIABLES ae_box, ae_last

ae_vars == <<ae_box, ae_last>>

AeKeys == {"k1", "k2"}
AeSeeds == {SeedBytes("s1"), SeedBytes("s2")}

ALast(op, key, cipher, res) == [op |-> op, key |-> key, cipher |-> cipher, res |-> res]

AeInit ==
    /\ ae_box = [fn |-> "", key |-> "", cipher |-> "", plaintext |-> <<>>,
                 enc |-> [nonce |-> <<>>, ciphertext |-> <<>>]]
    /\ ae_last = ALast("", "", "", Ok(<<>>))

(* encrypt_aes_gcm or encrypt_xchacha of the photos vault (crypto/aead.rs). *)
AeEncrypt(fn, key, plaintext, n) ==
    /\ ae_box' = [fn |-> fn, key |-> key, cipher |-> "", plaintext |-> plaintext,
                  enc |-> IF fn = "encrypt_aes_gcm"
                          THEN encrypt_aes_gcm(key, plaintext, n)
                          ELSE encrypt_xchacha(key, plaintext, n)]
    /\ ae_last' = ALast(fn, key, "", Ok(ae_box'.enc))

AeEncryptSeed(seed, kek, cipher, n) ==
    /\ ae_box' = [fn |-> "encrypt_seed", key |-> kek, cipher |-> cipher, plaintext |-> seed,
                  enc |-> encrypt_seed(seed, kek, cipher, n)]
    /\ ae_last' = ALast("encrypt_seed", kek, cipher, Ok(ae_box'.enc))

(* decrypt_aes_gcm or decrypt_xchacha on the sealed record on hand. *)
AeDecrypt(fn, key) ==
    /\ ae_box.fn # ""
    /\ ae_last' = ALast(fn, key, "",
                        IF fn = "decrypt_aes_gcm"
                        THEN decrypt_aes_gcm(key, ae_box.enc)
                        ELSE decrypt_xchacha(key, ae_box.enc))
    /\ UNCHANGED ae_box

AeDecryptSeed(kek, cipher) ==
    /\ ae_box.fn # ""
    /\ ae_last' = ALast("decrypt_seed", kek, cipher,
                        decrypt_seed(kek, ae_box.enc.nonce, ae_box.enc.ciphertext, cipher))
    /\ UNCHANGED ae_box

(***************************************************************************)
(* Key derivation of the key vault (alfa_keyvault/src/crypto/              *)
(* hkdf_derive.rs) and of the photos vault (crypto/hkdf.rs).  A purpose is *)
(* a sequence of characters; format!("{}:epoch:{}", purpose, epoch) is the *)
(* purpose, the characters of ":epoch:" and the decimal digits of epoch.   *)
(***************************************************************************)
DigitChar == <<"0", "1", "2", "3", "4", "5", "6", "7", "8", "9">>

RECURSIVE Decimal(_)
Decimal(n) ==
    IF n < 10 THEN <<DigitChar[n + 1]>>
    ELSE Decimal(n \div 10) \o <<DigitChar[(n % 10) + 1]>>

EpochSep == <<":", "e", "p", "o", "c", "h", ":">>

derive_key_32(seed, purpose) == derive_subkey_fixed(seed, purpose)

derive_epoch_key(seed, purpose, epoch) ==
    LET info == purpose \o EpochSep \o Decimal(epoch)
    IN derive_subkey_fixed(seed, info)

(* epoch.to_be_bytes() of a u64 (crypto/hkdf.rs 24); the epochs here are *)
(* below 2^32, so the four high bytes are zero.                         *)
to_be_bytes(epoch) ==
    [i \in 1..8 |-> IF i <= 4 THEN 0 ELSE (epoch \div (256 ^ (8 - i))) % 256]

(* derive_subkey of crypto/hkdf.rs: the context is the HKDF salt. *)
hkdf_derive_subkey(parent, context, info) == <<"hkdf", parent, hmac_block_key(context), info>>

hkdf_derive_epoch_key(master, epoch) ==
    hkdf_derive_subkey(master, to_be_bytes(epoch), "ALFA:EPOCH:v1")

(***************************************************************************)
(* A caller of the derivation functions.                                   *)
(*   kd_a, kd_b  the last call and the one before it: function, seed,      *)
(*               purpose, epoch, file id and the key returned              *)
(*   kd_km       the KeyManager last made by from_master_seed              *)
(***************************************************************************)
VARIABLES kd_a, kd_b, kd_km

kd_vars == <<kd_a, kd_b, kd_km>>

KdSeeds == {"seedA", "seedB"}
KdPurposes == {<<"a">>, <<"b">>, <<"a">> \o EpochSep, <<"a">> \o EpochSep \o <<"1">>}
KdEpochs == {0, 1, 10, 256}
KdFileIds == {<<97>>, <<98>>, <<97, 98>>, <<97, 0>>}

KdCall(fn, seed, purpose, epoch, file_id, key) ==
    [fn |-> fn, seed |-> seed, purpose |-> purpose, epoch |-> epoch,
     file_id |-> file_id, key |-> key]

NoCall == KdCall("", "", <<>>, 0, <<>>, <<>>)

KdInit ==
    /\ kd_a = NoCall
    /\ kd_b = NoCall
    /\ kd_km = None

KdRecord(call) ==
    /\ kd_a' = call
    /\ kd_b' = kd_a
    /\ UNCHANGED kd_km

KdDeriveKey32(seed, purpose) ==
    KdRecord(KdCall("derive_key_32", seed, purpose, 0, <<>>, derive_key_32(seed, purpose)))

KdDeriveEpochKey(seed, purpose, epoch) ==
    KdRecord(KdCall("derive_epoch_key", seed, purpose, epoch, <<>>,
                    derive_epoch_key(seed, purpose, epoch)))

KdHkdfDeriveEpochKey(master, epoch) ==
    KdRecord(KdCall("hkdf::derive_epoch_key", master, <<>>, epoch, <<>>,
                    hkdf_derive_epoch_key(master, epoch)))

KdFromMasterSeed(seed) ==
    /\ kd_km' = Some([seed |-> seed, km |-> from_master_seed(seed)])
    /\ UNCHANGED <<kd_a, kd_b>>

KdDeriveFileKey(file_id) ==
    /\ IsSome(kd_km)
    /\ KdRecord(KdCall("derive_file_key", kd_km[1].seed, <<>>, 0, file_id,
                       derive_file_key(kd_km[1].km, file_id)))

(***************************************************************************)
(* AutoPolicy on its own (policy.rs): a caller that sets the public        *)
(* metrics and calls the scoring and tuning functions.  The record here    *)
(* carries every field of AutoPolicy.                                      *)
(*   pl_policy  the policy                                                 *)
(*   pl_last    the last call, the policy before it and its result; a      *)
(*              result Err("panic") is the overflow check of a debug build *)
(***************************************************************************)
VARIABLES pl_policy, pl_last

pl_vars == <<pl_policy, pl_last>>

AutoPolicy_default ==
    [f \in DOMAIN AutoPolicyDefault \cup
           {"version", "argon2_memory_mib", "argon2_time_cost", "argon2_parallelism",
            "auto_shadow_interval_hours", "key_rotation_days", "min_password_length",
            "require_digits", "require_special", "updated_at"} |->
        IF f \in DOMAIN AutoPolicyDefault THEN AutoPolicyDefault[f]
        ELSE CASE f = "version" -> 1
               [] f = "argon2_memory_mib" -> 64
               [] f = "argon2_time_cost" -> 3
               [] f = "argon2_parallelism" -> 2
               [] f = "auto_shadow_interval_hours" -> 24
               [] f = "key_rotation_days" -> 90
               [] f = "min_password_length" -> 8
               [] f = "require_digits" -> TRUE
               [] f = "require_special" -> FALSE
               [] f = "updated_at" -> 0]

Builds == {"debug", "release"}

(* The values a caller gives failed_attempts_24h: small counts, and the    *)
(* counts around (2^32 - 1) / 10.                                          *)
PlFailedCounts == {0, 1, 2, 3, 5, 6, 8, 9, 10, 11, 429496729, 429496730, 429496736}
PlCpuCounts == {0, 5, 17, 64}
PlMemoryMb == {0, 63, 64, 511, 512, 2052, 2147483647}

PLLast(op, res) == [op |-> op, pre |-> pl_policy, res |-> res]

PlInit ==
    /\ pl_policy = AutoPolicy_default
    /\ pl_last = [op |-> "", pre |-> AutoPolicy_default, res |-> Ok(0)]

(* The caller assigns the public field metrics. *)
PlSetMetrics(failed, unusual, rapid, device) ==
    /\ pl_policy' = [pl_policy EXCEPT !.metrics =
                        [failed_attempts_24h |-> failed, unusual_hour_access |-> unusual,
                         rapid_access_attempts |-> rapid, new_device_detected |-> device]]
    /\ pl_last' = PLLast("set_metrics", Ok(0))

PlCalculateThreatScore(build) ==
    /\ pl_last' = PLLast("calculate_threat_score",
                         IF build = "debug" /\ threat_score_overflows(pl_policy)
                         THEN Err("panic")
                         ELSE Ok(calculate_threat_score(pl_policy)))
    /\ UNCHANGED pl_policy

PlUpdateThreatLevel(build) ==
    IF build = "debug" /\ threat_score_overflows(pl_policy)
    THEN /\ pl_last' = PLLast("update_threat_level", Err("panic"))
         /\ UNCHANGED pl_policy
    ELSE /\ pl_policy' = [update_threat_level(pl_policy) EXCEPT !.updated_at = now]
         /\ pl_last' = PLLast("update_threat_level", Ok(calculate_threat_score(pl_policy)))

(* A faulty variant of auto_tune_argon2: the memory has no floor of 16 MiB. *)
auto_tune_argon2_NoFloor(p, cpu_count, available_memory_mb, t) ==
    LET parallelism == Min(Max(cpu_count \div 2, 1), 8)
        memory_mib == Min(available_memory_mb \div 4, 512)
    IN [p EXCEPT !.argon2_parallelism = parallelism,
                 !.argon2_memory_mib = memory_mib,
                 !.argon2_time_cost = IF memory_mib >= 128 THEN 2 ELSE 3,
                 !.updated_at = t]

auto_tune_argon2(p, cpu_count, available_memory_mb, t) ==
    LET parallelism == Min(Max(cpu_count \div 2, 1), 8)
        target_memory == Min(available_memory_mb \div 4, 512)
        memory_mib == Max(target_memory, 16)
    IN [p EXCEPT !.argon2_parallelism = parallelism,
                 !.argon2_memory_mib = memory_mib,
                 !.argon2_time_cost = IF memory_mib >= 128 THEN 2 ELSE 3,
                 !.updated_at = t]

PlAutoTuneArgon2(cpu_count, available_memory_mb) ==
    /\ pl_policy' = auto_tune_argon2(pl_policy, cpu_count, available_memory_mb, now)
    /\ pl_last' = [op |-> "auto_tune_argon2", pre |-> pl_policy,
                   res |-> Ok(<<cpu_count, available_memory_mb>>)]

(***************************************************************************)
(* Biometrics (biometrics.rs): PIN authentication with a lockout.          *)
(*   bio         None before Biometrics::new, then the config and the      *)
(*               AuthState                                                 *)
(*   bio_now     the clock, in seconds                                     *)
(*   bio_streak  the failed verifications since the last one that          *)
(*               succeeded                                                 *)
(*   bio_last    the last call: the state before it, whether verify was    *)
(*               called, and the result; Err("panic") is the overflow      *)
(*               check of a debug build                                    *)
(***************************************************************************)
VARIABLES bio, bio_now, bio_streak, bio_last

bio_vars == <<bio, bio_now, bio_streak, bio_last>>

MaxBioTime == 6
MaxStreak == 257
BioMaxAttempts == {3, 255}
BioLockoutDuration == 2

AuthState_default ==
    [authenticated |-> FALSE, auth_time |-> None, failed_attempts |-> 0, locked_until |-> None]

BioLast(op, pre, called, res) == [op |-> op, pre |-> pre, verify_called |-> called, res |-> res]

BioInit ==
    /\ bio = None
    /\ bio_now = 0
    /\ bio_streak = 0
    /\ bio_last = BioLast("", AuthState_default, FALSE, Ok(FALSE))

(* Biometrics::new (biometrics.rs 84-89). *)
BioNew(max_attempts) ==
    /\ bio = None
    /\ bio' = Some([config |-> [max_attempts |-> max_attempts,
                                lockout_duration |-> BioLockoutDuration],
                    state |-> AuthState_default])
    /\ bio_last' = BioLast("new", AuthState_default, FALSE, Ok(FALSE))
    /\ UNCHANGED <<bio_now, bio_streak>>

is_locked(st, t) == IF IsSome(st.locked_until) THEN t < st.locked_until[1] ELSE FALSE

(* authenticate_pin (biometrics.rs 111-134) with a PIN that verify accepts *)
(* or rejects: the state after the call, whether verify was called and the *)
(* result.  failed_attempts is a u8; += 1 at U8 - 1 panics in a build with *)
(* overflow checks and wraps to 0 in one without.                          *)
authenticate_pin(b, verifies, t, build) ==
    IF is_locked(b.state, t)
    THEN [state |-> b.state, called |-> FALSE, res |-> Err("TooManyAttempts")]
    ELSE IF verifies
    THEN [state |-> [authenticated |-> TRUE, auth_time |-> Some(t),
                     failed_attempts |-> 0, locked_until |-> None],
          called |-> TRUE, res |-> Ok(TRUE)]
    ELSE IF b.state.failed_attempts + 1 >= U8 /\ build = "debug"
    THEN [state |-> b.state, called |-> TRUE, res |-> Err("panic")]
    ELSE LET failed == (b.state.failed_attempts + 1) % U8
         IN IF failed >= b.config.max_attempts
            THEN [state |-> [b.state EXCEPT !.failed_attempts = failed,
                                            !.locked_until =
                                                Some(t + b.config.lockout_duration)],
                  called |-> TRUE, res |-> Err("TooManyAttempts")]
            ELSE [state |-> [b.state EXCEPT !.failed_attempts = failed],
                  called |-> TRUE, res |-> Err("InvalidPin")]

BioAuthenticatePin(verifies, build) ==
    /\ IsSome(bio)
    /\ bio_streak < MaxStreak
    /\ LET r == authenticate_pin(bio[1], verifies, bio_now, build)
       IN /\ bio' = Some([bio[1] EXCEPT !.state = r.state])
          /\ bio_streak' = IF ~r.called THEN bio_streak
                           ELSE IF verifies THEN 0 ELSE bio_streak + 1
          /\ bio_last' = BioLast("authenticate_pin", bio[1].state, r.called, r.res)
    /\ UNCHANGED bio_now

BioIsLocked ==
    /\ IsSome(bio)
    /\ bio_last' = BioLast("is_locked", bio[1].state, FALSE, Ok(is_locked(bio[1].state, bio_now)))
    /\ UNCHANGED <<bio, bio_now, bio_streak>>

(* lock (biometrics.rs 154-157). *)
BioLock ==
    /\ IsSome(bio)
    /\ bio' = Some([bio[1] EXCEPT !.state.authenticated = FALSE, !.state.auth_time = None])
    /\ bio_last' = BioLast("lock", bio[1].state, FALSE, Ok(FALSE))
    /\ UNCHANGED <<bio_now, bio_streak>>

BioTick ==
    /\ bio_now < MaxBioTime
    /\ bio_now' = bio_now + 1
    /\ bio_last' = BioLast("tick", bio_last.pre, FALSE, Ok(FALSE))
    /\ UNCHANGED <<bio, bio_streak>>

(***************************************************************************)
(* The locks of VaultBrain (brain.rs 82-95): parking_lot RwLocks around    *)
(* policy, events, profile and the four state cells.  Every operation is   *)
(* the sequence of the lock calls it makes, in source order: a guard bound *)
(* by let is released where it is dropped or at the end of its function, a *)
(* guard that is a temporary at the end of its statement.                  *)
(***************************************************************************)
Acq(lock, mode) == <<"acquire", lock, mode>>
Rel(lock) == <<"release", lock>>
Tmp(lock, mode) == <<Acq(lock, mode), Rel(lock)>>

(* record_event called by enter_lockdown (brain.rs 195): its first statement *)
(* takes the events lock for writing (118).                                  *)
record_event_again == <<Acq("events", "w")>>

update_profile_locks == <<Acq("profile", "w"), Rel("profile")>>

enter_lockdown_cells == Tmp("lockdown_active", "w") \o Tmp("lockdown_started", "w")

check_and_update_policy_locks(lockdown) ==
    Tmp("failed_attempts", "r") \o <<Acq("policy", "r")>>
      \o (IF lockdown
          THEN <<Rel("policy")>> \o enter_lockdown_cells \o record_event_again
          ELSE <<Acq("profile", "r"), Rel("profile"), Rel("policy"),
                 Acq("policy", "w"), Rel("policy")>>)

(* kind: "success", "failed_unlock" or "other" (brain.rs 124-129). *)
record_event_locks(kind, lockdown) ==
    <<Acq("events", "w")>> \o update_profile_locks
      \o (IF kind = "success"
          THEN Tmp("failed_attempts", "w") \o Tmp("last_success", "w")
          ELSE IF kind = "failed_unlock" THEN Tmp("failed_attempts", "w") ELSE <<>>)
      \o check_and_update_policy_locks(lockdown)
      \o <<Rel("events")>>

enter_lockdown_locks(lockdown) == enter_lockdown_cells \o record_event_locks("other", lockdown)

exit_lockdown_locks ==
    Tmp("lockdown_active", "w") \o Tmp("lockdown_started", "w")
      \o Tmp("failed_attempts", "w")

(* path: "inactive", "active" or "expired" (brain.rs 208-228). *)
is_lockdown_active_locks(path) ==
    Tmp("lockdown_active", "r")
      \o (IF path = "inactive" THEN <<>>
          ELSE <<Acq("policy", "r")>> \o Tmp("lockdown_started", "r") \o <<Rel("policy")>>
                 \o (IF path = "expired" THEN exit_lockdown_locks ELSE <<>>))

is_access_allowed_locks(path) ==
    is_lockdown_active_locks(path)
      \o (IF path = "active" THEN <<>> ELSE <<Acq("policy", "r"), Rel("policy")>>)

get_stats_locks ==
    <<Acq("events", "r"), Acq("profile", "r"), Acq("policy", "r"),
      Acq("failed_attempts", "r"), Acq("lockdown_active", "r"), Acq("last_success", "r"),
      Rel("last_success"), Rel("lockdown_active"), Rel("failed_attempts"),
      Rel("policy"), Rel("profile"), Rel("events")>>

(* set_policy, auto_tune, get_policy, get_metrics (brain.rs 270-306). *)
policy_only_locks(mode) == Tmp("policy", mode)

(* predict_access, get_profile, export_profile, import_profile. *)
profile_only_locks(mode) == Tmp("profile", mode)

LockScripts ==
    {record_event_locks(kind, lockdown) :
        kind \in {"success", "failed_unlock", "other"}, lockdown \in BOOLEAN}
    \cup {enter_lockdown_locks(lockdown) : lockdown \in BOOLEAN}
    \cup {exit_lockdown_locks, get_stats_locks}
    \cup {is_lockdown_active_locks(path) : path \in {"inactive", "active", "expired"}}
    \cup {is_access_allowed_locks(path) : path \in {"inactive", "active", "expired"}}
    \cup {policy_only_locks(mode) : mode \in {"r", "w"}}
    \cup {profile_only_locks(mode) : mode \in {"r", "w"}}

(***************************************************************************)
(*   lk_script[t]  the lock calls that thread t still has to make in the   *)
(*                 operation it runs; <<>> when it runs none               *)
(*   lk_held[t]    the locks thread t holds, in the order it took them     *)
(***************************************************************************)
VARIABLES lk_script, lk_held

lock_vars == <<lk_script, lk_held>>

LockThreads == {"t1", "t2"}

LockInit ==
    /\ lk_script = [t \in LockThreads |-> <<>>]
    /\ lk_held = [t \in LockThreads |-> <<>>]

Holders(lock, mode) ==
    {t \in LockThreads : \E i \in 1..Len(lk_held[t]) :
        lk_held[t][i][2] = lock /\ (mode = "any" \/ lk_held[t][i][3] = mode)}

(* parking_lot: a writer needs the lock free, a reader needs it free of a  *)
(* writer; a thread that holds the lock itself waits like any other.       *)
CanAcquire(lock, mode) ==
    IF mode = "w" THEN Holders(lock, "any") = {} ELSE Holders(lock, "w") = {}

LockCall(t, script) ==
    /\ lk_script[t] = <<>>
    /\ lk_held[t] = <<>>
    /\ lk_script' = [lk_script EXCEPT ![t] = script]
    /\ UNCHANGED lk_held

LockStep(t) ==
    /\ lk_script[t] # <<>>
    /\ LET step == Head(lk_script[t])
       IN IF step[1] = "acquire"
          THEN /\ CanAcquire(step[2], step[3])
               /\ lk_held' = [lk_held EXCEPT ![t] = Append(@, step)]
          ELSE lk_held' = [lk_held EXCEPT ![t] =
                              SelectSeq(@, LAMBDA h : h[2] # step[2])]
    /\ lk_script' = [lk_script EXCEPT ![t] = Tail(@)]

(***************************************************************************)
(* SecureFs (secure_fs.rs).  A path is its stem and its extension;         *)
(* Path::with_extension replaces the extension.                            *)
(*   sfs_files[p]  the bytes of the file at path p, None when absent       *)
(*   sfs_run       the running or last write_file call: its path, its      *)
(*                 data, the file at the path before the call, and where   *)
(*                 the call stands ("opened", "written", "synced", or      *)
(*                 "done" when it has returned or the process has stopped) *)
(*   sfs_last      the last call and its result                            *)
(***************************************************************************)
VARIABLES sfs_files, sfs_run, sfs_last

sfs_vars == <<sfs_files, sfs_run, sfs_last>>

SfsStems == {"photos/a"}
SfsExts == {"enc", "tmp"}
SfsPaths == [stem : SfsStems, ext : SfsExts]
SfsData == {<<1, 2>>, <<3>>}

with_extension(path, ext) == [path EXCEPT !.ext = ext]

NoWrite == [path |-> [stem |-> "", ext |-> ""], data |-> <<>>, before |-> None,
            step |-> "done"]

SfsInit ==
    /\ sfs_files = [p \in SfsPaths |-> None]
    /\ sfs_run = NoWrite
    /\ sfs_last = [op |-> "", path |-> NoWrite.path, res |-> Ok(<<>>)]

SfsLast(op, path, res) == [op |-> op, path |-> path, res |-> res]

(* let temp_path = path.with_extension("tmp") (secure_fs.rs 40). *)
TempPath(path) == with_extension(path, "tmp")

(* write_file (secure_fs.rs 31-46): up to the return of open, which        *)
(* creates the temporary file or truncates the file that is there.         *)
SfsWriteFile(path, data, fail) ==
    /\ sfs_run.step = "done"
    /\ IF fail = "open"
       THEN /\ sfs_run' = [path |-> path, data |-> data, before |-> sfs_files[path],
                           step |-> "done"]
            /\ sfs_last' = SfsLast("write_file", path, Err("Io"))
            /\ UNCHANGED sfs_files
       ELSE /\ sfs_files' = [sfs_files EXCEPT ![TempPath(path)] = Some(<<>>)]
            /\ sfs_run' = [path |-> path, data |-> data, before |-> sfs_files[path],
                           step |-> "opened"]
            /\ sfs_last' = SfsLast("open", path, Ok(<<>>))

(* file.write_all(data)? (secure_fs.rs 48): all of data, or an error after *)
(* the first k bytes.                                                      *)
SfsWriteAll(k, fail) ==
    /\ sfs_run.step = "opened"
    /\ k < Len(sfs_run.data)
    /\ IF fail = "write"
       THEN /\ sfs_files' = [sfs_files EXCEPT ![TempPath(sfs_run.path)] =
                                Some(SubSeq(sfs_run.data, 1, k))]
            /\ sfs_run' = [sfs_run EXCEPT !.step = "done"]
            /\ sfs_last' = SfsLast("write_file", sfs_run.path, Err("Io"))
       ELSE /\ sfs_files' = [sfs_files EXCEPT ![TempPath(sfs_run.path)] = Some(sfs_run.data)]
            /\ sfs_run' = [sfs_run EXCEPT !.step = "written"]
            /\ sfs_last' = SfsLast("write_all", sfs_run.path, Ok(<<>>))

(* file.sync_all()? (secure_fs.rs 49). *)
SfsSyncAll(fail) ==
    /\ sfs_run.step = "written"
    /\ IF fail = "sync"
       THEN /\ sfs_run' = [sfs_run EXCEPT !.step = "done"]
            /\ sfs_last' = SfsLast("write_file", sfs_run.path, Err("Io"))
       ELSE /\ sfs_run' = [sfs_run EXCEPT !.step = "synced"]
            /\ sfs_last' = SfsLast("sync_all", sfs_run.path, Ok(<<>>))
    /\ UNCHANGED sfs_files

(* fs::rename(&temp_path, &path)? (secure_fs.rs 52) and the return. *)
SfsRename(fail) ==
    /\ sfs_run.step = "synced"
    /\ sfs_run' = [sfs_run EXCEPT !.step = "done"]
    /\ IF fail = "rename"
       THEN /\ sfs_last' = SfsLast("write_file", sfs_run.path, Err("Io"))
            /\ UNCHANGED sfs_files
       ELSE /\ sfs_files' =
                 IF TempPath(sfs_run.path) = sfs_run.path THEN sfs_files
                 ELSE [sfs_files EXCEPT ![sfs_run.path] = sfs_files[TempPath(sfs_run.path)],
                                        ![TempPath(sfs_run.path)] = None]
            /\ sfs_last' = SfsLast("write_file", sfs_run.path, Ok(<<>>))

(* The process stops inside write_file. *)
SfsStop ==
    /\ sfs_run.step # "done"
    /\ sfs_run' = [sfs_run EXCEPT !.step = "done"]
    /\ sfs_last' = SfsLast("stop", sfs_run.path, Err("stopped"))
    /\ UNCHANGED sfs_files

(* read_file (secure_fs.rs 58-70). *)
SecureFs_read_file(path) ==
    IF ~IsSome(sfs_files[path]) THEN Err("FileNotFound") ELSE Ok(sfs_files[path][1])

SfsReadFile(path) ==
    /\ sfs_run.step = "done"
    /\ sfs_last' = SfsLast("read_file", path, SecureFs_read_file(path))
    /\ UNCHANGED <<sfs_files, sfs_run>>

(* delete_file (secure_fs.rs 73-98): the bytes are overwritten with zeros  *)
(* and the file is removed; fail = "remove" is remove_file failing.        *)
SfsDeleteFile(path, fail) ==
    /\ sfs_run.step = "done"
    /\ IF ~IsSome(sfs_files[path])
       THEN /\ sfs_last' = SfsLast("delete_file", path, Ok(<<>>))
            /\ UNCHANGED sfs_files
       ELSE IF fail = "remove"
       THEN /\ sfs_files' = [sfs_files EXCEPT ![path] =
                                Some([i \in 1..Len(sfs_files[path][1]) |-> 0])]
            /\ sfs_last' = SfsLast("delete_file", path, Err("Io"))
       ELSE /\ sfs_files' = [sfs_files EXCEPT ![path] = None]
            /\ sfs_last' = SfsLast("delete_file", path, Ok(<<>>))
    /\ UNCHANGED sfs_run

(* exists (secure_fs.rs 101-103). *)
SecureFs_exists(path) == IsSome(sfs_files[path])

not_rot == <<vault_vars, race_vars, brain_vars, tamper_vars, snap_vars, pc_vars, lock_vars, sfs_vars, db_vars, ae_vars, kd_vars, pl_vars, bio_vars, gate_vars, rc_vars, root_vars>>
not_tamper == <<race_vars, brain_vars, rot_vars, snap_vars, pc_vars, lock_vars, sfs_vars, db_vars, ae_vars, kd_vars, pl_vars, bio_vars, gate_vars, rc_vars, root_vars>>
not_snap == <<vault_vars, race_vars, brain_vars, tamper_vars, rot_vars, pc_vars, lock_vars, sfs_vars, db_vars, ae_vars, kd_vars, pl_vars, bio_vars, gate_vars, rc_vars, root_vars>>
not_pc == <<vault_vars, race_vars, brain_vars, tamper_vars, rot_vars, snap_vars, lock_vars, sfs_vars, db_vars, ae_vars, kd_vars, pl_vars, bio_vars, gate_vars, rc_vars, root_vars>>
not_rotate_keys == <<race_vars, brain_vars, tamper_vars, snap_vars, pc_vars, lock_vars, sfs_vars, db_vars, ae_vars, kd_vars, pl_vars, bio_vars, gate_vars, rc_vars, root_vars>>
not_lock == <<vault_vars, race_vars, brain_vars, tamper_vars, rot_vars, snap_vars, pc_vars, sfs_vars, db_vars, ae_vars, kd_vars, pl_vars, bio_vars, gate_vars, rc_vars, root_vars>>
not_sfs == <<vault_vars, race_vars, brain_vars, tamper_vars, rot_vars, snap_vars, pc_vars, lock_vars, db_vars, ae_vars, kd_vars, pl_vars, bio_vars, gate_vars, rc_vars, root_vars>>
not_db == <<vault_vars, race_vars, brain_vars, tamper_vars, rot_vars, snap_vars, pc_vars, lock_vars, sfs_vars, ae_vars, kd_vars, pl_vars, bio_vars, gate_vars, rc_vars, root_vars>>
not_ae == <<vault_vars, race_vars, brain_vars, tamper_vars, rot_vars, snap_vars, pc_vars, lock_vars, sfs_vars, db_vars, kd_vars, pl_vars, bio_vars, gate_vars, rc_vars, root_vars>>
not_kd == <<vault_vars, race_vars, brain_vars, tamper_vars, rot_vars, snap_vars, pc_vars, lock_vars, sfs_vars, db_vars, ae_vars, pl_vars, bio_vars, gate_vars, rc_vars, root_vars>>
not_pl == <<vault_vars, race_vars, brain_vars, tamper_vars, rot_vars, snap_vars, pc_vars, lock_vars, sfs_vars, db_vars, ae_vars, kd_vars, bio_vars, gate_vars, rc_vars, root_vars>>
not_bio == <<vault_vars, race_vars, brain_vars, tamper_vars, rot_vars, snap_vars, pc_vars, lock_vars, sfs_vars, db_vars, ae_vars, kd_vars, pl_vars, gate_vars, rc_vars, root_vars>>
not_gate == <<vault_vars, race_vars, brain_vars, tamper_vars, rot_vars, snap_vars, pc_vars, lock_vars, sfs_vars, db_vars, ae_vars, kd_vars, pl_vars, bio_vars, rc_vars, root_vars>>
not_vault_gate == <<race_vars, brain_vars, tamper_vars, rot_vars, snap_vars, pc_vars, lock_vars, sfs_vars, db_vars, ae_vars, kd_vars, pl_vars, bio_vars, rc_vars, root_vars>>
not_rc == <<vault_vars, race_vars, brain_vars, tamper_vars, rot_vars, snap_vars, pc_vars, lock_vars, sfs_vars, db_vars, ae_vars, kd_vars, pl_vars, bio_vars, gate_vars, root_vars>>
not_rot_rc == <<vault_vars, race_vars, brain_vars, tamper_vars, snap_vars, pc_vars, lock_vars, sfs_vars, db_vars, ae_vars, kd_vars, pl_vars, bio_vars, gate_vars, root_vars>>
not_root == <<vault_vars, race_vars, brain_vars, tamper_vars, rot_vars, snap_vars, pc_vars, lock_vars, sfs_vars, db_vars, ae_vars, kd_vars, pl_vars, bio_vars, gate_vars, rc_vars>>
not_vault_root == <<race_vars, brain_vars, tamper_vars, rot_vars, snap_vars, pc_vars, lock_vars, sfs_vars, db_vars, ae_vars, kd_vars, pl_vars, bio_vars, gate_vars, rc_vars>>

ext_vars == <<tamper_vars, rot_vars, snap_vars, pc_vars, lock_vars, sfs_vars, db_vars, ae_vars, kd_vars, pl_vars, bio_vars, gate_vars, rc_vars, root_vars>>

vars == <<vault_vars, race_vars, brain_vars, ext_vars>>

Init ==
    /\ CreateVault(CreatePin, 0) /\ RaceInit /\ BrainInit /\ TamperInit /\ RotInit
    /\ SnapInit /\ PcInit /\ LockInit /\ SfsInit /\ DbInit /\ AeInit /\ KdInit /\ PlInit /\ BioInit /\ GateInit /\ RcInit /\ RootInit

(***************************************************************************)
(* The photo vault used by one caller: every call runs to completion.      *)
(* pins are the PINs the caller tries; ifails and dfails are the steps of  *)
(* import_photo and delete_photo that the file system or the database may  *)
(* fail.                                                                   *)
(***************************************************************************)
Names == {"a.jpg"}

VaultStep(pins, ifails, dfails) ==
    \/ OpenVault /\ UNCHANGED <<race_vars, brain_vars, ext_vars>>
    \/ (\E pin \in pins : Unlock(pin)) /\ UNCHANGED <<race_vars, brain_vars, ext_vars>>
    \/ Lock /\ UNCHANGED <<race_vars, brain_vars, ext_vars>>
    \/ /\ \E plaintext \in Blobs, name \in Names, n \in Nonces, fail \in ifails :
             ImportPhoto(plaintext, name, n, n, n, fail)
       /\ UNCHANGED <<race_vars, brain_vars, ext_vars>>
    \/ (\E id \in PhotoIds : GetPhoto(id)) /\ UNCHANGED <<race_vars, brain_vars, ext_vars>>
    \/ (\E id \in PhotoIds : GetThumbnail(id)) /\ UNCHANGED <<race_vars, brain_vars, ext_vars>>
    \/ (\E id \in PhotoIds : GetPhotoMeta(id)) /\ UNCHANGED <<race_vars, brain_vars, ext_vars>>
    \/ ListPhotos /\ UNCHANGED <<race_vars, brain_vars, ext_vars>>
    \/ /\ \E id \in PhotoIds, fail \in dfails : DeletePhoto(id, fail)
       /\ UNCHANGED <<race_vars, brain_vars, ext_vars>>
    \/ Reset /\ UNCHANGED <<race_vars, brain_vars, ext_vars>>

(* Spec: one caller, a healthy file system, any PIN. *)
Next == VaultStep(Pins, {"none"}, {"none"})

Spec == Init /\ [][Next]_vars

(* SpecFaults: any step of import and delete may fail; the caller knows the PIN. *)
NextFaults == VaultStep({CreatePin}, ImportFails, DeleteFails)

SpecFaults == Init /\ [][NextFaults]_vars

(* SpecRace: the threads of one process call unlock on one vault. *)
NextRace ==
    \/ (\E t \in Threads, pin \in Pins : UnlockCheck(t, pin)) /\ UNCHANGED <<brain_vars, ext_vars>>
    \/ (\E t \in Threads : UnlockDecrypt(t)) /\ UNCHANGED <<brain_vars, ext_vars>>
    \/ (\E t \in Threads : UnlockInstall(t)) /\ UNCHANGED <<brain_vars, ext_vars>>
    \/ (\E t \in Threads : UnlockReset(t)) /\ UNCHANGED <<brain_vars, ext_vars>>
    \/ (\E t \in Threads : UnlockCount(t)) /\ UNCHANGED <<brain_vars, ext_vars>>
    \/ RaceOpen /\ UNCHANGED <<brain_vars, ext_vars>>

SpecRace == Init /\ [][NextRace]_vars

(* SpecBrain: the threads of one process call one VaultBrain. *)
NextBrain ==
    \/ /\ \E t \in Threads, ev \in Events({now, 0}) : RecordEvent(t, ev)
       /\ UNCHANGED <<vault_vars, race_vars, ext_vars>>
    \/ (\E t \in Threads : EnterLockdown(t)) /\ UNCHANGED <<vault_vars, race_vars, ext_vars>>
    \/ (\E t \in Threads : IsLockdownActive(t)) /\ UNCHANGED <<vault_vars, race_vars, ext_vars>>
    \/ (\E t \in Threads : ExitLockdown(t)) /\ UNCHANGED <<vault_vars, race_vars, ext_vars>>
    \/ (\E t \in Threads : IsAccessAllowed(t)) /\ UNCHANGED <<vault_vars, race_vars, ext_vars>>
    \/ /\ \E t \in Threads, p \in Policies : SetPolicy(t, p)
       /\ UNCHANGED <<vault_vars, race_vars, ext_vars>>
    \/ (\E d \in TickDeltas : Tick(d)) /\ UNCHANGED <<vault_vars, race_vars, ext_vars>>

SpecBrain == Init /\ [][NextBrain]_vars

(* SpecSession: an application that drives a PhotoVault and, on one *)
(* thread, records events in a VaultBrain.                          *)
NextSession ==
    \/ OpenVault /\ UNCHANGED <<race_vars, brain_vars, ext_vars>>
    \/ (\E pin \in Pins : Unlock(pin)) /\ UNCHANGED <<race_vars, brain_vars, ext_vars>>
    \/ Lock /\ UNCHANGED <<race_vars, brain_vars, ext_vars>>
    \/ /\ \E ev \in Events({now, 0}) : RecordEvent(1, ev)
       /\ UNCHANGED <<vault_vars, race_vars, ext_vars>>
    \/ (ticks = 0 /\ Tick(3600)) /\ UNCHANGED <<vault_vars, race_vars, ext_vars>>

SpecSession == Init /\ [][NextSession]_vars

(* SpecTamper: one caller who knows the PIN, a healthy file system, and *)
(* photo files that are changed behind the vault's back.                *)
NextTamper ==
    \/ Unlock(CreatePin) /\ UNCHANGED <<race_vars, brain_vars, ext_vars>>
    \/ Lock /\ UNCHANGED <<race_vars, brain_vars, ext_vars>>
    \/ /\ \E plaintext \in Blobs, name \in Names, n \in Nonces :
             ImportPhoto(plaintext, name, n, n, n, "none")
       /\ UNCHANGED <<race_vars, brain_vars, ext_vars>>
    \/ (\E id \in PhotoIds : GetPhoto(id)) /\ UNCHANGED <<race_vars, brain_vars, ext_vars>>
    \/ /\ \E id \in PhotoIds : DeletePhoto(id, "none")
       /\ UNCHANGED <<race_vars, brain_vars, ext_vars>>
    \/ /\ \E id \in PhotoIds, off \in 1..(NONCE_LEN + MaxBlobLen + TAG_LEN) : Tamper(id, off)
       /\ UNCHANGED not_tamper

SpecTamper == Init /\ [][NextTamper]_vars

(* SpecRotation: the processes that, one after the other, hold the      *)
(* RotationManager of one vault root; the writes of rotation.json may   *)
(* fail and the clock advances.                                         *)
RotTickDeltas == {1, DAY, 90 * DAY}

NextRotation ==
    \/ (\E fail \in SaveFails : RotLoadOrCreate(fail)) /\ UNCHANGED not_rot
    \/ (\E fail \in SaveFails : RotRotate(fail)) /\ UNCHANGED not_rot
    \/ RotNeedsRotation /\ UNCHANGED not_rot
    \/ /\ \E p \in RotationPolicies, fail \in SaveFails : RotUpdatePolicy(p, fail)
       /\ UNCHANGED not_rot
    \/ (\E d \in RotTickDeltas : Tick(d)) /\ UNCHANGED <<vault_vars, race_vars, ext_vars>>

SpecRotation == Init /\ [][NextRotation]_vars

(* SpecSnapshot: one SnapshotManager over one directory, its snapshots   *)
(* made with one seed; the write of a snapshot file may fail, the chain  *)
(* is verified by processes that load the files, and the prev_hash of    *)
(* one stored snapshot may be overwritten.                               *)
SnapMaxSnapshots == {2, 10}

NextSnapshot ==
    \/ (\E max_snapshots \in SnapMaxSnapshots : SnapNew(max_snapshots)) /\ UNCHANGED not_snap
    \/ /\ \E key_usages \in UsageMaps, order \in IterOrders, fail \in SnapCreateFails :
             SnapCreate(SignSeed, KdfParamsDefault, key_usages, order, fail)
       /\ UNCHANGED not_snap
    \/ /\ \E seed \in Seeds, orders \in [1..MaxSnapshots -> IterOrders] :
             SnapVerifyChain(seed, orders)
       /\ UNCHANGED not_snap
    \/ /\ \E epoch \in 1..MaxSnapshots, stamp \in {now} : SnapOverwritePrev(<<epoch, stamp>>)
       /\ UNCHANGED not_snap

SpecSnapshot == Init /\ [][NextSnapshot]_vars

(* SpecSign: snapshots made and signed with either seed, held in memory, *)
(* changed in one field and verified with either seed.                   *)
SignOrder == <<"ALFA:mail", "ALFA:config">>

NextSign ==
    \/ SnapNew(10) /\ UNCHANGED not_snap
    \/ /\ \E seed \in Seeds, key_usages \in UsageMaps, order \in {SignOrder} :
             SnapCreate(seed, KdfParamsDefault, key_usages, order, "none")
       /\ UNCHANGED not_snap
    \/ (\E field \in SnapFields : SnapAlter(field)) /\ UNCHANGED not_snap
    \/ (\E seed \in Seeds : SnapVerify(seed)) /\ UNCHANGED not_snap

SpecSign == Init /\ [][NextSign]_vars

(* SpecRotateKeys: PhotoVaultApi with one caller and a healthy photo     *)
(* store: photos are imported, read and deleted, the vault is locked and *)
(* unlocked, and keys are rotated any number of times with any new PIN.  *)
NextRotateKeys ==
    \/ Unlock(CreatePin) /\ UNCHANGED <<race_vars, brain_vars, ext_vars>>
    \/ Lock /\ UNCHANGED <<race_vars, brain_vars, ext_vars>>
    \/ /\ \E plaintext \in Blobs, name \in Names, n \in Nonces :
             ImportPhoto(plaintext, name, n, n, n, "none")
       /\ UNCHANGED <<race_vars, brain_vars, ext_vars>>
    \/ (\E id \in PhotoIds : GetPhoto(id)) /\ UNCHANGED <<race_vars, brain_vars, ext_vars>>
    \/ /\ \E id \in PhotoIds : DeletePhoto(id, "none")
       /\ UNCHANGED <<race_vars, brain_vars, ext_vars>>
    \/ RotLoadOrCreate("none") /\ UNCHANGED not_rot
    \/ /\ \E new_pin \in Pins, fail \in SaveFails : RotateKeys(new_pin, fail)
       /\ UNCHANGED not_rotate_keys

SpecRotateKeys == Init /\ [][NextRotateKeys]_vars

(* SpecRotateSnap: the rotation manager of the photo vault and the       *)
(* snapshot manager of the key vault in one application, each called in  *)
(* any order.                                                            *)
NextRotateSnap ==
    \/ (\E fail \in SaveFails : RotLoadOrCreate(fail)) /\ UNCHANGED not_rot
    \/ /\ \E new_pin \in Pins, fail \in SaveFails : RotateKeys(new_pin, fail)
       /\ UNCHANGED not_rotate_keys
    \/ SnapNew(10) /\ UNCHANGED not_snap
    \/ /\ SnapCreate(SignSeed, KdfParamsDefault, TwoUsages, SignOrder, "none")
       /\ UNCHANGED not_snap

SpecRotateSnap == Init /\ [][NextRotateSnap]_vars

(* SpecReencrypt: one photo file that is stored, read and encrypted      *)
(* again with the keys of the next generation; File::create, write_all   *)
(* and sync_all may fail, and the process may stop between them.         *)
NextReencrypt ==
    \/ (\E plaintext \in Blobs, n \in Nonces : PcEncryptPhoto(plaintext, n)) /\ UNCHANGED not_pc
    \/ PcDecryptPhoto /\ UNCHANGED not_pc
    \/ (\E n \in Nonces, fail \in {"none", "create"} : PcReencrypt(n, fail)) /\ UNCHANGED not_pc
    \/ /\ \E k \in 0..(MIN_FILE_SIZE + MaxBlobLen), fail \in {"none", "write"} :
             PcWriteAll(k, fail)
       /\ UNCHANGED not_pc
    \/ (\E fail \in {"none", "sync"} : PcSyncAll(fail)) /\ UNCHANGED not_pc
    \/ PcStop /\ UNCHANGED not_pc

SpecReencrypt == Init /\ [][NextReencrypt]_vars

(* SpecPrune: the processes that, one after the other, run a               *)
(* SnapshotManager with max_snapshots = 2 over one directory; the write of *)
(* a snapshot file may fail and the clock advances.                        *)
NextPrune ==
    \/ SnapNew(2) /\ UNCHANGED not_snap
    \/ SnapRestart(2) /\ UNCHANGED not_snap
    \/ /\ \E fail \in SnapCreateFails :
             SnapCreate(SignSeed, KdfParamsDefault, NoUsages, SignOrder, fail)
       /\ UNCHANGED not_snap
    \/ (\E d \in {1} : Tick(d)) /\ UNCHANGED <<vault_vars, race_vars, ext_vars>>

SpecPrune == Init /\ [][NextPrune]_vars

(* SpecLocks: two threads that call the operations of one VaultBrain, each *)
(* operation advancing one lock call at a time.                            *)
NextLocks ==
    \/ (\E t \in LockThreads, script \in LockScripts : LockCall(t, script)) /\ UNCHANGED not_lock
    \/ (\E t \in LockThreads : LockStep(t)) /\ UNCHANGED not_lock

SpecLocks == Init /\ [][NextLocks]_vars

(* SpecSecureFs: one caller of SecureFs; every step of write_file may     *)
(* fail and the process may stop between two steps.                       *)
NextSecureFs ==
    \/ /\ \E path \in SfsPaths, data \in SfsData, fail \in {"none", "open"} :
             SfsWriteFile(path, data, fail)
       /\ UNCHANGED not_sfs
    \/ (\E k \in 0..1, fail \in {"none", "write"} : SfsWriteAll(k, fail)) /\ UNCHANGED not_sfs
    \/ (\E fail \in {"none", "sync"} : SfsSyncAll(fail)) /\ UNCHANGED not_sfs
    \/ (\E fail \in {"none", "rename"} : SfsRename(fail)) /\ UNCHANGED not_sfs
    \/ SfsStop /\ UNCHANGED not_sfs
    \/ (\E path \in SfsPaths : SfsReadFile(path)) /\ UNCHANGED not_sfs
    \/ /\ \E path \in SfsPaths, fail \in {"none", "remove"} : SfsDeleteFile(path, fail)
       /\ UNCHANGED not_sfs

SpecSecureFs == Init /\ [][NextSecureFs]_vars

(* SpecDecrypt: envelopes made by encrypt_bytes, altered in every way the  *)
(* checks of decrypt_bytes look for, and opened with either photo id under *)
(* either generation of keys.                                              *)
NextDecrypt ==
    \/ /\ \E g \in DbGens, plaintext \in Blobs, photo_id \in DbPhotoIds, n \in Nonces :
             DbEncryptBytes(g, plaintext, photo_id, n)
       /\ UNCHANGED not_db
    \/ (\E kind \in DbTampers : DbTamper(kind)) /\ UNCHANGED not_db
    \/ (\E g \in DbGens, photo_id \in DbPhotoIds : DbDecryptBytes(g, photo_id)) /\ UNCHANGED not_db

SpecDecrypt == Init /\ [][NextDecrypt]_vars

(* SpecSeal: a caller seals with every sealing function of the two crates  *)
(* and opens what it has sealed, with the same or another key, cipher or   *)
(* photo id.                                                               *)
NextSeal ==
    \/ /\ \E plaintext \in Blobs, photo_id \in DbPhotoIds, n \in Nonces :
             DbEncryptBytes(0, plaintext, photo_id, n)
       /\ UNCHANGED not_db
    \/ (\E g \in DbGens, photo_id \in DbPhotoIds : DbDecryptBytes(g, photo_id)) /\ UNCHANGED not_db
    \/ /\ \E fn \in {"encrypt_aes_gcm", "encrypt_xchacha"}, key \in AeKeys,
             plaintext \in Blobs, n \in Nonces : AeEncrypt(fn, key, plaintext, n)
       /\ UNCHANGED not_ae
    \/ /\ \E seed \in AeSeeds, kek \in AeKeys, cipher \in AeadCiphers, n \in Nonces :
             AeEncryptSeed(seed, kek, cipher, n)
       /\ UNCHANGED not_ae
    \/ /\ \E fn \in {"decrypt_aes_gcm", "decrypt_xchacha"}, key \in AeKeys : AeDecrypt(fn, key)
       /\ UNCHANGED not_ae
    \/ (\E kek \in AeKeys, cipher \in AeadCiphers : AeDecryptSeed(kek, cipher)) /\ UNCHANGED not_ae

SpecSeal == Init /\ [][NextSeal]_vars

(* SpecDerive: a caller derives keys with every derivation function, over  *)
(* two seeds, purposes that contain the epoch separator, epochs of one to   *)
(* three digits and file ids of which one ends in a zero byte.              *)
NextDerive ==
    \/ (\E seed \in KdSeeds, purpose \in KdPurposes : KdDeriveKey32(seed, purpose))
          /\ UNCHANGED not_kd
    \/ /\ \E seed \in KdSeeds, purpose \in KdPurposes, epoch \in KdEpochs :
             KdDeriveEpochKey(seed, purpose, epoch)
       /\ UNCHANGED not_kd
    \/ (\E master \in KdSeeds, epoch \in KdEpochs : KdHkdfDeriveEpochKey(master, epoch))
          /\ UNCHANGED not_kd
    \/ (\E seed \in KdSeeds : KdFromMasterSeed(seed)) /\ UNCHANGED not_kd
    \/ (\E file_id \in KdFileIds : KdDeriveFileKey(file_id)) /\ UNCHANGED not_kd

SpecDerive == Init /\ [][NextDerive]_vars

(* SpecThreat: a caller sets the metrics of a policy and has the threat    *)
(* score and level computed, in a build with and one without overflow      *)
(* checks.                                                                 *)
NextThreat ==
    \/ /\ \E failed \in PlFailedCounts, unusual \in BOOLEAN, rapid \in BOOLEAN,
             device \in BOOLEAN : PlSetMetrics(failed, unusual, rapid, device)
       /\ UNCHANGED not_pl
    \/ (\E build \in Builds : PlCalculateThreatScore(build)) /\ UNCHANGED not_pl
    \/ (\E build \in Builds : PlUpdateThreatLevel(build)) /\ UNCHANGED not_pl

SpecThreat == Init /\ [][NextThreat]_vars

(* SpecTune: a caller tunes the Argon2 parameters of a policy whose threat *)
(* level and metrics vary.                                                 *)
NextTune ==
    \/ (\E failed \in {0, 3} : PlSetMetrics(failed, FALSE, FALSE, FALSE)) /\ UNCHANGED not_pl
    \/ PlUpdateThreatLevel("release") /\ UNCHANGED not_pl
    \/ /\ \E cpu_count \in PlCpuCounts, available_memory_mb \in PlMemoryMb :
             PlAutoTuneArgon2(cpu_count, available_memory_mb)
       /\ UNCHANGED not_pl
    \/ (ticks = 0 /\ Tick(1)) /\ UNCHANGED <<vault_vars, race_vars, ext_vars>>

SpecTune == Init /\ [][NextTune]_vars

(* SpecBiometrics: one Biometrics, PINs that verify and PINs that do not,  *)
(* in a build with and one without overflow checks, and the clock.         *)
NextBiometrics ==
    \/ (\E max_attempts \in BioMaxAttempts : BioNew(max_attempts)) /\ UNCHANGED not_bio
    \/ /\ \E verifies \in BOOLEAN, build \in Builds : BioAuthenticatePin(verifies, build)
       /\ UNCHANGED not_bio
    \/ BioIsLocked /\ UNCHANGED not_bio
    \/ BioLock /\ UNCHANGED not_bio
    \/ BioTick /\ UNCHANGED not_bio

SpecBiometrics == Init /\ [][NextBiometrics]_vars

(* SpecGate: the threads of one process call lock and the gated          *)
(* operations of one PhotoVault; unlock is called between them.          *)
GateBlobs == {b \in Blobs : Len(b) = 1}

NextGate ==
    \/ GateUnlock /\ UNCHANGED <<race_vars, brain_vars, ext_vars>>
    \/ (\E t \in Threads : GateLock(t)) /\ UNCHANGED not_vault_gate
    \/ (\E t \in Threads, op \in GateOps : GateCheck(t, op)) /\ UNCHANGED not_vault_gate
    \/ (\E t \in Threads : GateKeys(t)) /\ UNCHANGED not_vault_gate
    \/ /\ \E t \in Threads, id \in PhotoIds, plaintext \in GateBlobs, name \in Names :
             GateRun(t, id, plaintext, name, 0)
       /\ UNCHANGED not_vault_gate
    \/ (\E t \in Threads : GateVerify(t)) /\ UNCHANGED not_vault_gate

SpecGate == Init /\ [][NextGate]_vars

(* SpecRotRace: the threads of one process call rotate on one            *)
(* RotationManager; the writes of rotation.json may fail and the clock   *)
(* advances.                                                             *)
NextRotRace ==
    \/ RcLoadOrCreate /\ UNCHANGED not_rot_rc
    \/ (\E t \in Threads : RcRotate(t)) /\ UNCHANGED not_rot_rc
    \/ (\E t \in Threads, fail \in SaveFails : RcSaveOpen(t, fail)) /\ UNCHANGED not_rot_rc
    \/ (\E t \in Threads, fail \in SaveFails : RcSaveWrite(t, fail)) /\ UNCHANGED not_rot_rc
    \/ (\E d \in {1, DAY} : Tick(d)) /\ UNCHANGED <<vault_vars, race_vars, ext_vars>>

SpecRotRace == Init /\ [][NextRotRace]_vars

(* SpecReopen: one application that opens handles on one vault root, one *)
(* after the other, and calls unlock on the latest.                      *)
NextReopen ==
    \/ RootOpen /\ UNCHANGED not_vault_root
    \/ (\E pin \in Pins : RootUnlock(pin)) /\ UNCHANGED not_vault_root

SpecReopen == Init /\ [][NextReopen]_vars

(***************************************************************************)
(* Claims about the photo vault.                                           *)
(***************************************************************************)
VaultKeys == from_master_seed(derive_seed_from_pin(CreatePin))

WrongPin(pin) == pin # CreatePin

GatedOps == {"import_photo", "get_photo", "get_thumbnail", "get_photo_meta",
             "list_photos", "delete_photo", "reset"}

(* C1: an unlock call made in Lockdown returns TooManyAttempts without deriving
   a key and changes neither state nor failed_attempts, whatever the PIN; a
   wrong-PIN unlock call made outside Lockdown adds one to failed_attempts and
   returns InvalidPin with the state unchanged while the new count is below
   max_failed_attempts, and sets Lockdown and returns TooManyAttempts when the
   new count reaches max_failed_attempts. *)
C1_UnlockCountsToLockdown ==
    vlast.op = "unlock" =>
        /\ vlast.pre_state = "Lockdown" =>
              /\ vlast.err = "TooManyAttempts"
              /\ ~vlast.derived
              /\ state = "Lockdown"
              /\ failed_attempts = vlast.pre_failed
        /\ (vlast.pre_state # "Lockdown" /\ WrongPin(vlast.arg[1])) =>
              /\ failed_attempts = vlast.pre_failed + 1
              /\ failed_attempts < config.max_failed_attempts =>
                    (vlast.err = "InvalidPin" /\ state = vlast.pre_state)
              /\ failed_attempts >= config.max_failed_attempts =>
                    (vlast.err = "TooManyAttempts" /\ state = "Lockdown")
              /\ (state = "Lockdown") = (failed_attempts >= DefaultMaxFailedAttempts)

(* C1 witness: the correct PIN was refused in a Lockdown that the fifth wrong
   PIN of a run started from Locked had set. *)
C1_Witness ==
    /\ vlast.op = "unlock"
    /\ vlast.pre_state = "Lockdown"
    /\ vlast.arg = <<CreatePin>>
    /\ vlast.err = "TooManyAttempts"
    /\ failed_attempts = DefaultMaxFailedAttempts
    /\ ~IsSome(keys)

(* C3 as claimed: a lock() or unlock() call made in Lockdown leaves the state
   Lockdown. *)
C3_LockdownOnlyLeftByExpiry ==
    (vlast.op \in {"lock", "unlock"} /\ vlast.pre_state = "Lockdown") => state = "Lockdown"

(* C7: lock() leaves the vault not unlocked with keys, index, thumbnail engine
   and AI absent; a gated operation called while the vault is not unlocked
   returns VaultLocked and leaves the files, the index database and the index
   handle as they were. *)
C7_LockedGatesRefuse ==
    [][/\ vlast'.op = "lock" =>
             /\ state' # "Unlocked"
             /\ keys' = None /\ index' = None /\ thumbs' = None /\ ai' = None
       /\ (vlast'.op \in GatedOps /\ state # "Unlocked") =>
             /\ vlast'.err = "VaultLocked"
             /\ UNCHANGED <<disk_vars, index, state>>
       /\ state' # "Unlocked" =>
             /\ \A id \in PhotoIds :
                   /\ get_photo(id)'.err = "VaultLocked"
                   /\ get_thumbnail(id)'.err = "VaultLocked"
                   /\ get_photo_meta(id)'.err = "VaultLocked"
             /\ list_photos'.err = "VaultLocked"]_vars

(* C7 witness: import_photo was refused on a locked vault that holds a photo. *)
C7_Witness ==
    /\ vlast.op = "import_photo"
    /\ vlast.err = "VaultLocked"
    /\ state = "Locked"
    /\ \E id \in PhotoIds : IsSome(photos_dir[id]) /\ IsSome(index_db[id])

(* C9: while the vault is Unlocked, get_photo returns the imported bytes of
   every photo that was imported and not deleted, and list_photos returns
   exactly the ids of these photos. *)
C9_ImportedPhotosRoundTrip ==
    state = "Unlocked" =>
        /\ \A id \in PhotoIds :
              IsSome(imported[id]) =>
                  (get_photo(id).ok /\ get_photo(id).val = imported[id][1])
        /\ list_photos.ok
        /\ {m.id : m \in list_photos.val} = {id \in PhotoIds : IsSome(imported[id])}

(* C9 witness: the vault was unlocked again from Locked and holds two imported
   photos, one of them not empty. *)
C9_Witness ==
    /\ vlast.op = "unlock" /\ vlast.ok /\ vlast.pre_state = "Locked"
    /\ state = "Unlocked"
    /\ \A id \in PhotoIds : IsSome(imported[id])
    /\ \E id \in PhotoIds : Len(imported[id][1]) > 0

(* C10 as claimed: every file photos/<id>.enc has an index record for id whose
   hmac is the HMAC of the file's bytes under the vault HMAC key. *)
C10_EveryFileHasMatchingRecord ==
    \A id \in PhotoIds :
        IsSome(photos_dir[id]) =>
            LET rec == index_get_photo(index_db, PhotoIndex_open(VaultKeys), id)
            IN /\ rec.ok
               /\ rec.val.hmac = compute_hmac(VaultKeys.hmac_key, photos_dir[id][1])

(* C8 as claimed: at most one unlock call is under way at a time, and the
   wrong PINs checked against the manifest before Lockdown never number more
   than max_failed_attempts. *)
C8_UnlockSerialized ==
    /\ Cardinality({t \in Threads : upc[t] # "idle"}) <= 1
    /\ wrong_checked <= config.max_failed_attempts

(* C8, the bound alone: the wrong PINs checked against the manifest before
   Lockdown never number more than max_failed_attempts. *)
C8_WrongPinsBounded == wrong_checked <= config.max_failed_attempts

(***************************************************************************)
(* Claims about the brain.                                                 *)
(***************************************************************************)
BrainCells == <<lockdown_active, lockdown_started, brain_failed_attempts>>

(* C2 as claimed: the record_event call of a failed Unlock event that brings
   the failure count to max_failed_attempts returns, and lockdown is active
   after it. *)
C2_LockdownAfterNFailures ==
    ( /\ blast.op = "record_event"
      /\ blast.ev.event_type = "Unlock"
      /\ ~blast.ev.success
      /\ blast.ret # "waiting"
      /\ brain_failed_attempts >= policy.max_failed_attempts )
    => (blast.ret = "returned" /\ lockdown_active)

(* C4: an is_lockdown_active call made while lockdown is active and more than
   lockout_seconds after lockdown_started returns false and sets
   lockdown_active = false, lockdown_started = None and failed_attempts = 0;
   made while lockdown is active and at most lockout_seconds after
   lockdown_started it returns true and changes nothing; made while lockdown is
   not active it returns false and changes nothing. *)
C4_LazyLockdownExit ==
    [][blast'.op = "is_lockdown_active" =>
          /\ ( /\ lockdown_active
               /\ IsSome(lockdown_started)
               /\ now - lockdown_started[1] > policy.lockout_seconds ) =>
                 /\ blast'.ret = "false"
                 /\ lockdown_active' = FALSE
                 /\ lockdown_started' = None
                 /\ brain_failed_attempts' = 0
          /\ ( /\ lockdown_active
               /\ IsSome(lockdown_started)
               /\ now - lockdown_started[1] <= policy.lockout_seconds ) =>
                 (blast'.ret = "true" /\ UNCHANGED BrainCells)
          /\ ~lockdown_active => (blast'.ret = "false" /\ UNCHANGED BrainCells)
          /\ UNCHANGED <<policy, last_success, events_len, profile, now>>]_vars

(* C4 witness: an is_lockdown_active call found an expired lockdown and a
   failure count above zero, and ended the lockdown. *)
C4_Witness ==
    /\ blast.op = "is_lockdown_active"
    /\ blast.ret = "false"
    /\ blast.pre_active
    /\ blast.pre_failed > 0
    /\ ~lockdown_active
    /\ lockdown_started = None
    /\ brain_failed_attempts = 0

(* C5: is_access_allowed returns LockdownActive when lockdown is active and
   not expired; otherwise PolicyViolation when allowed_hours is set and does
   not contain the current hour; otherwise ThreatDetected when threat_level is
   Critical; otherwise Ok. *)
C5_GateOrder ==
    [][blast'.op = "is_access_allowed" =>
          blast'.ret =
              IF lockdown_active
                 /\ ~(IsSome(lockdown_started)
                      /\ now - lockdown_started[1] > policy.lockout_seconds)
              THEN "LockdownActive"
              ELSE IF IsSome(policy.allowed_hours)
                      /\ hour_of(now) \notin policy.allowed_hours[1]
              THEN "PolicyViolation"
              ELSE IF policy.threat_level = "Critical"
              THEN "ThreatDetected"
              ELSE "Ok"]_vars

(* C5 witness: all three gates denied at once and LockdownActive was returned. *)
C5_Witness ==
    /\ blast.op = "is_access_allowed"
    /\ blast.ret = "LockdownActive"
    /\ lockdown_active
    /\ IsSome(policy.allowed_hours)
    /\ hour_of(now) \notin policy.allowed_hours[1]
    /\ policy.threat_level = "Critical"

(* C6: PhotoVault.unlock with the correct PIN from Locked succeeds and leaves
   state = Unlocked, the keys and the index installed and failed_attempts = 0;
   the vault is in Lockdown only when at least max_failed_attempts wrong PINs
   were checked since the vault was opened or last unlocked; and a
   VaultBrain.record_event call with success = true returns and leaves
   failed_attempts = 0 and last_success = the event's timestamp. *)
C6_SuccessResetsCounter ==
    /\ (vlast.op = "unlock" /\ vlast.arg = <<CreatePin>> /\ vlast.pre_state = "Locked") =>
          /\ vlast.ok
          /\ state = "Unlocked"
          /\ keys = Some(VaultKeys)
          /\ index = Some(PhotoIndex_open(VaultKeys))
          /\ failed_attempts = 0
          /\ wrong_checked = 0
    /\ state = "Lockdown" => wrong_checked >= config.max_failed_attempts
    /\ (blast.op = "record_event" /\ blast.ev.success) =>
          /\ blast.ret = "returned"
          /\ brain_failed_attempts = 0
          /\ last_success = Some(blast.ev.timestamp)

(* C6 witness: the vault was unlocked from Locked after wrong PINs, and a
   successful event with a timestamp other than the clock's was recorded after
   failed ones. *)
C6_Witness ==
    /\ vlast.op = "unlock" /\ vlast.ok
    /\ vlast.pre_state = "Locked" /\ vlast.pre_failed > 0
    /\ blast.op = "record_event" /\ blast.ev.success
    /\ blast.pre_failed > 0
    /\ blast.ev.timestamp # now

(***************************************************************************)
(* Claims about changed photo files.                                       *)
(***************************************************************************)
Tampered(id) ==
    /\ IsSome(pristine[id])
    /\ IsSome(photos_dir[id])
    /\ photos_dir[id][1] # pristine[id][1]

(* C11: with the vault Unlocked, get_photo of a photo whose file differs from
   the bytes written at import returns HmacVerificationFailed and no
   plaintext, without deriving the file key or decrypting; and whenever
   get_photo derives the file key or decrypts, it has compared the HMAC
   before. *)
C11_TamperedFileRefused ==
    \A id \in PhotoIds :
        LET run == get_photo_run(id)
        IN /\ (state = "Unlocked" /\ Tampered(id)) =>
                 /\ ~run.res.ok
                 /\ run.res.err = "HmacVerificationFailed"
                 /\ run.res.val = <<>>
                 /\ \A i \in DOMAIN run.steps :
                       run.steps[i] \notin {"derive_file_key", "decrypt_aes_gcm"}
           /\ \A i \in DOMAIN run.steps :
                 run.steps[i] \in {"derive_file_key", "from_bytes_aes", "decrypt_aes_gcm"} =>
                     \E j \in 1..(i - 1) : run.steps[j] = "verify_hmac"

(* C11 witness: get_photo returned HmacVerificationFailed on an unlocked vault
   that holds a changed photo file beside an unchanged one that it returns. *)
C11_Witness ==
    /\ vlast.op = "get_photo"
    /\ vlast.err = "HmacVerificationFailed"
    /\ state = "Unlocked"
    /\ \E id \in PhotoIds : Tampered(id) /\ Len(pristine[id][1]) > NONCE_LEN + TAG_LEN
    /\ \E id \in PhotoIds : ~Tampered(id) /\ get_photo(id).ok

(***************************************************************************)
(* Claims about key rotation.                                              *)
(***************************************************************************)
(* C12 as claimed: every epoch value that rotate() returns is greater than
   every epoch value that rotate() has returned or that a record of
   epoch_history has held before, also after failed saves and a later
   load_or_create from the persisted rotation.json. *)
C12_EpochNeverReused ==
    (rlast.op = "rotate" /\ rlast.ok) => \A e \in rlast.pre_seen : rlast.epoch > e

(* C13: a new state has current_epoch = 1, an empty epoch_history and
   next_rotation = last_rotation + rotation_interval_days; needs_rotation()
   is true exactly when now >= next_rotation; rotate() appends the record of
   the old epoch (epoch = old current_epoch, started = old last_rotation,
   ended = now), keeps the newest keep_epochs records at most, adds exactly 1
   to current_epoch, sets last_rotation = now and next_rotation = now +
   rotation_interval_days, and returns the new current_epoch. *)
C13_RotationState ==
    [][rot_vars' # rot_vars =>
       /\ rlast'.op = "new" =>
             /\ rlast'.epoch = 1
             /\ rlast'.flag
             /\ rlast'.ok => /\ rot'[1].current_epoch = 1
                             /\ rot'[1].epoch_history = <<>>
                             /\ rot'[1].last_rotation = now
                             /\ rot'[1].next_rotation = now + 90 * DAY
       /\ rlast'.op = "needs_rotation" =>
             rlast'.flag = (now >= rot[1].next_rotation)
       /\ rlast'.op = "rotate" =>
             LET old == rot[1]
                 new == rot'[1]
                 all == Append(old.epoch_history,
                               [epoch |-> old.current_epoch,
                                started |-> old.last_rotation, ended |-> now])
                 kept == Min(Len(all), old.policy.keep_epochs)
             IN /\ new.epoch_history = SubSeq(all, Len(all) - kept + 1, Len(all))
                /\ Len(new.epoch_history) <= old.policy.keep_epochs
                /\ new.current_epoch = old.current_epoch + 1
                /\ new.last_rotation = now
                /\ new.next_rotation = now + old.policy.rotation_interval_days * DAY
                /\ new.policy = old.policy
                /\ rlast'.epoch = new.current_epoch]_vars

(* C13 witness: a rotate() call made after the clock had advanced dropped the
   oldest record of a history that was full. *)
C13_Witness ==
    /\ rlast.op = "rotate"
    /\ IsSome(rot)
    /\ rot[1].current_epoch = 4
    /\ Len(rot[1].epoch_history) = 2
    /\ rot[1].epoch_history[1].epoch = 2
    /\ rot[1].last_rotation > 0

(***************************************************************************)
(* Claims about key rotation through PhotoVaultApi.                        *)
(***************************************************************************)
SnapshotsOnDisk == {from_json("PqxSnapshot", f.data).val : f \in snap_files}

(* C14 as claimed: after rotate_keys (RotationManager::rotate) has returned
   the new epoch e, a signed snapshot with epoch e exists whose prev_hash is
   the canonical hash of the snapshot of epoch e - 1. *)
C14_RotationAppendsSnapshot ==
    (rlast.op = "rotate_keys" /\ rlast.ok) =>
        \E s \in SnapshotsOnDisk :
            /\ s.epoch = rlast.epoch
            /\ s.signature # <<>>
            /\ \E p \in SnapshotsOnDisk, order \in IterOrders :
                  /\ p.epoch = rlast.epoch - 1
                  /\ s.prev_hash = Some(compute_hash(p, order))

(* C15: a rotate_keys call, whether or not it returns an error and whatever
   the new PIN, leaves the result of get_photo of every photo id as it was
   before the call: the same bytes for every stored photo. *)
C15_RotationPreservesContent ==
    [][(rlast'.op = "rotate_keys" /\ rot' # rot) =>
          \A id \in PhotoIds : get_photo(id)' = get_photo(id)]_vars

(* C15 witness: keys were rotated at least twice while the vault was Unlocked
   and held two readable photos, one of them not empty. *)
C15_Witness ==
    /\ rlast.op = "rotate_keys" /\ rlast.ok /\ rlast.epoch >= 3
    /\ state = "Unlocked"
    /\ \A id \in PhotoIds : IsSome(imported[id]) /\ get_photo(id).ok
    /\ \E id \in PhotoIds : Len(imported[id][1]) > 0

(* C16 as claimed: when reencrypt has returned an error or the process has
   stopped inside it, the file at path holds the complete old envelope,
   readable with the old keys, or the complete new envelope, readable with the
   new keys. *)
C16_ReencryptAtomic ==
    (pc_step = "idle" /\ pc_last.op \in {"reencrypt", "stop"} /\ ~pc_last.ok
     /\ pc_run # NoRun) =>
        \/ /\ pc_file = Some(pc_run.before)
           /\ decrypt_photo(PhotoCrypto_new(pc_run.old), pc_file, PcPhotoId) = Ok(pc_plain)
        \/ /\ pc_file = Some(pc_run.encrypted)
           /\ decrypt_photo(PhotoCrypto_new(pc_run.new), pc_file, PcPhotoId) = Ok(pc_plain)

(***************************************************************************)
(* Claims about the signed snapshots of the key vault.                     *)
(***************************************************************************)
OverwrittenStored == {f \in snap_files : f.name \in overwritten}

ChainInvalid == {slast.chain.invalid[i] : i \in 1..Len(slast.chain.invalid)}

(* C17 as claimed: on one manager with one seed the first snapshot made has
   prev_hash = None and every later one has the compute_hash of the snapshot
   made just before it, and verify_chain with that seed over the untouched
   directory reports valid = total, invalid empty and chain_intact = true. *)
C17_ChainVerifies ==
    /\ (slast.op = "create_snapshot") =>
          snap[1].s.prev_hash =
             IF IsSome(slast.pre_snap)
             THEN Some(compute_hash(slast.pre_snap[1].s, slast.pre_snap[1].order))
             ELSE None
    /\ (slast.op = "verify_chain" /\ slast.seed = SignSeed /\ overwritten = {}) =>
          /\ slast.chain.valid = slast.chain.total
          /\ slast.chain.invalid = <<>>
          /\ slast.chain.chain_intact

(* C18 as claimed: verify_chain with the signing seed, after the prev_hash of
   one stored snapshot that had one was overwritten, reports chain_intact =
   false and valid = total. *)
C18_OverwriteKeepsAllValid ==
    (slast.op = "verify_chain" /\ slast.seed = SignSeed /\ OverwrittenStored # {}) =>
        /\ ~slast.chain.chain_intact
        /\ slast.chain.valid = slast.chain.total

(* C18 amended: verify_chain, after the prev_hash of one stored snapshot that
   had one was overwritten, reports chain_intact = false, lists the epoch of
   that snapshot in invalid, and counts as valid the snapshots that are not in
   invalid, which are fewer than total. *)
C18_OverwriteFailsSignature ==
    (slast.op = "verify_chain" /\ OverwrittenStored # {}) =>
        /\ ~slast.chain.chain_intact
        /\ \A f \in OverwrittenStored : EpochOf(f) \in ChainInvalid
        /\ slast.chain.valid = slast.chain.total - Len(slast.chain.invalid)
        /\ slast.chain.valid < slast.chain.total

(* C18 witness: four snapshots are stored, the prev_hash of snapshot 3 was
   overwritten, and verify_chain with the signing seed found three valid
   snapshots and snapshot 3 invalid. *)
C18_Witness ==
    /\ slast.op = "verify_chain" /\ slast.seed = SignSeed
    /\ {EpochOf(f) : f \in OverwrittenStored} = {3}
    /\ slast.chain.total = 4 /\ slast.chain.valid = 3
    /\ slast.chain.invalid = <<3>>
    /\ ~slast.chain.chain_intact

(* C19: verify of a snapshot that was signed and not changed since returns
   true with the seed it was signed with and false with any other seed. *)
C19_VerifyOnlyWithSigningSeed ==
    (slast.op = "verify" /\ snap_altered = "") =>
        (slast.ret <=> slast.seed = snap[1].seed)

(* C19 witness: a snapshot with two key usages that is linked to an earlier
   one was verified with another seed than the one that signed it, and verify
   returned false. *)
C19_Witness ==
    /\ slast.op = "verify" /\ snap_altered = ""
    /\ slast.seed # snap[1].seed /\ ~slast.ret
    /\ snap[1].s.key_usages = TwoUsages
    /\ IsSome(snap[1].s.prev_hash)

(* C20 as claimed: verify with the signing seed returns false for a signed
   snapshot of which one field, whichever it is, was changed afterwards. *)
C20_AnyAlterationDetected ==
    (slast.op = "verify" /\ snap_altered # "" /\ slast.seed = snap[1].seed) =>
        ~slast.ret

(* C21 as claimed: the hash of a snapshot does not depend on the order in
   which its key_usages map iterates, so every stored snapshot that nobody
   has touched has, however it is loaded, the same hash and verifies with the
   seed that signed it. *)
C21_HashIgnoresIterationOrder ==
    \A f \in snap_files \ OverwrittenStored :
        LET s == from_json("PqxSnapshot", f.data).val
        IN \A o1 \in IterOrders :
              /\ \A o2 \in IterOrders : compute_hash(s, o1) = compute_hash(s, o2)
              /\ verify(s, o1, SignSeed)

(* C22 as claimed: after every successful create_snapshot the directory holds
   at most max_snapshots files, and the files kept are those of the most
   recently made snapshots: one file for each of the consecutive epochs that
   end at current_epoch, the snapshot just made among them. *)
C22_PruningKeepsNewestTail ==
    (slast.op = "create_snapshot" /\ slast.ok) =>
        LET kept == {EpochOf(f) : f \in snap_files}
        IN /\ Cardinality(snap_files) <= sm[1].max_snapshots
           /\ Cardinality(kept) = Cardinality(snap_files)
           /\ kept = (sm[1].current_epoch - Cardinality(snap_files) + 1)..sm[1].current_epoch
           /\ to_json("PqxSnapshot", snap[1].s) \in {f.data : f \in snap_files}

(***************************************************************************)
(* Claims about the locks of VaultBrain.                                   *)
(***************************************************************************)
LockRank(lock) ==
    IF lock = "policy" THEN 1
    ELSE IF lock = "events" THEN 2
    ELSE IF lock = "profile" THEN 3
    ELSE 4

(* C23 as claimed: every thread holds its locks in the order policy, events,
   profile, state cells: no thread has taken the policy lock while it held the
   events lock or the profile lock. *)
C23_LockOrder ==
    \A t \in LockThreads : \A i, j \in 1..Len(lk_held[t]) :
        i < j => LockRank(lk_held[t][i][2]) <= LockRank(lk_held[t][j][2])

(***************************************************************************)
(* Claims about the access gate and auto-lock.                             *)
(***************************************************************************)
IdleTooLong ==
    IsSome(last_success) /\ now - last_success[1] > policy.auto_lock_after_seconds

(* C24 as claimed: a call of the access gate made when the last success is
   more than auto_lock_after_seconds ago does not let the operation run: it
   does not return Ok. *)
C24_GateAutoLocks ==
    (blast.op = "is_access_allowed" /\ IdleTooLong) => blast.ret # "Ok"

(***************************************************************************)
(* Claims about SecureFs.                                                  *)
(***************************************************************************)
(* C25 as claimed: at every point of a write_file call, and after it has
   failed or the process has stopped, the file at relative_path is what it was
   before the call (absent or its previous contents) or holds exactly data;
   after a successful call it holds data, so that read_file returns data; and
   after a successful delete_file the file does not exist. *)
C25_WriteFileAtomic ==
    /\ (sfs_run # NoWrite /\ sfs_last.op \in {"open", "write_all", "sync_all",
                                               "write_file", "stop"}) =>
          /\ sfs_files[sfs_run.path] \in {sfs_run.before, Some(sfs_run.data)}
          /\ (sfs_last.op = "write_file" /\ sfs_last.res.ok) =>
                SecureFs_read_file(sfs_run.path) = Ok(sfs_run.data)
    /\ (sfs_last.op = "delete_file" /\ sfs_last.res.ok) => ~SecureFs_exists(sfs_last.path)


(* C26: decrypt_bytes applies its checks in the order size, magic, version, *)
(* HMAC, AEAD and stops at the first that fails: the error it returns is    *)
(* that of the first check, in this order, that the bytes do not pass.  The *)
(* AEAD is opened only after the HMAC over all bytes before the last 32 has *)
(* verified, and a failure carries no plaintext.                            *)
DbShort == Len(db_last.data) < 69
DbMagicOk == SubSeq(db_last.data, 1, 8) = MAGIC
DbVersionOk == db_last.data[9] = 1
DbHmacOk ==
    SubSeq(db_last.data, Len(db_last.data) - 31, Len(db_last.data))
        = HmacBytes(PhotoCrypto_new(db_last.g),
                    SubSeq(db_last.data, 1, Len(db_last.data) - 32))
DbAeadOk ==
    Open(<<PhotoCrypto_derive_file_key(PhotoCrypto_new(db_last.g), db_last.photo_id),
           "aad", db_last.photo_id>>,
         SubSeq(db_last.data, 10, 21),
         SubSeq(db_last.data, 22, Len(db_last.data) - 32)).ok

C26_DecryptCheckOrder ==
    db_last.op = "decrypt_bytes" =>
        /\ DbShort => db_last.res = Err("File too small")
        /\ (~DbShort /\ ~DbMagicOk) => db_last.res = Err("Invalid magic bytes")
        /\ (~DbShort /\ DbMagicOk /\ ~DbVersionOk) => db_last.res = Err("Unsupported version")
        /\ (~DbShort /\ DbMagicOk /\ DbVersionOk /\ ~DbHmacOk) =>
              db_last.res = Err("HMAC verification failed")
        /\ (~DbShort /\ DbMagicOk /\ DbVersionOk /\ DbHmacOk /\ ~DbAeadOk) =>
              db_last.res = Err("Decryption failed - wrong key or corrupted")
        /\ db_last.res.err = "Decryption failed - wrong key or corrupted" => DbHmacOk
        /\ ~db_last.res.ok => db_last.res.val = <<>>

(* decrypt_bytes was given bytes of full size with the right magic and     *)
(* version whose HMAC does not verify and which the AEAD would not open.   *)
C26_Witness ==
    /\ db_last.op = "decrypt_bytes"
    /\ ~DbShort /\ DbMagicOk /\ DbVersionOk /\ ~DbHmacOk /\ ~DbAeadOk


(* C27: the file that a successful import_photo has written under photos/  *)
(* is a blob envelope: at least 69 bytes, the magic ALFAPHOT, the version   *)
(* byte 0x01, a 12-byte nonce, the AES-GCM ciphertext and tag sealed with   *)
(* the blob id as associated data, and the HMAC over all bytes before it;   *)
(* verify_integrity under the HMAC key of the vault accepts it.             *)
ImportedFile == photos_dir[next_id - 1]
VaultPhotoCrypto == [master_key |-> keys[1].photos_key, hmac_key |-> keys[1].hmac_key]

C27_ImportWritesEnvelope ==
    (vlast.op = "import_photo" /\ vlast.ok) =>
        /\ IsSome(ImportedFile)
        /\ Len(ImportedFile[1]) >= 69
        /\ SubSeq(ImportedFile[1], 1, 8) = MAGIC
        /\ ImportedFile[1][9] = 1
        /\ \E n \in Nonces :
              /\ SubSeq(ImportedFile[1], 10, 21) = NonceBytes(n, 12)
              /\ SubSeq(ImportedFile[1], 22, Len(ImportedFile[1]) - 32)
                    = Seal(<<derive_file_key(keys[1], uuid_to_string(next_id - 1)), "aad", next_id - 1>>,
                           n, imported[next_id - 1][1])
        /\ verify_integrity(VaultPhotoCrypto, ImportedFile) = Ok(TRUE)


(* C28: opening what was sealed, with the key and the associated data it   *)
(* was sealed with, returns the plaintext: decrypt_bytes of encrypt_bytes  *)
(* under the same photo id, decrypt_aes_gcm of encrypt_aes_gcm,            *)
(* decrypt_xchacha of encrypt_xchacha, and decrypt_seed of encrypt_seed    *)
(* under the same cipher, for both ciphers.                                *)
DbSameKeysUnaltered ==
    /\ db_last.op = "decrypt_bytes" /\ db_sealed.photo_id # ""
    /\ db_tampers = {} /\ db_last.g = db_sealed.g
AeOpened(open_fn, seal_fn) == ae_last.op = open_fn /\ ae_box.fn = seal_fn

C28_SealOpenRoundTrip ==
    /\ (DbSameKeysUnaltered /\ db_last.photo_id = db_sealed.photo_id) =>
          db_last.res = Ok(db_sealed.plaintext)
    /\ (AeOpened("decrypt_aes_gcm", "encrypt_aes_gcm") /\ ae_last.key = ae_box.key) =>
          ae_last.res = Ok(ae_box.plaintext)
    /\ (AeOpened("decrypt_xchacha", "encrypt_xchacha") /\ ae_last.key = ae_box.key) =>
          ae_last.res = Ok(ae_box.plaintext)
    /\ (AeOpened("decrypt_seed", "encrypt_seed") /\ ae_last.key = ae_box.key
          /\ ae_last.cipher = ae_box.cipher) =>
          ae_last.res = Ok(ae_box.plaintext)

(* A seed sealed with XChaCha20-Poly1305 was opened with its KEK, after a  *)
(* photo envelope was opened under its own photo id.                       *)
C28_Witness ==
    /\ AeOpened("decrypt_seed", "encrypt_seed") /\ ae_last.key = ae_box.key
    /\ ae_last.cipher = ae_box.cipher /\ ae_box.cipher = "XChaCha20Poly1305"
    /\ DbSameKeysUnaltered /\ db_last.photo_id = db_sealed.photo_id
    /\ db_sealed.plaintext # <<>>

(* C29: opening with another key or other associated data fails and gives  *)
(* no plaintext: decrypt_aes_gcm with a key other than the sealing key      *)
(* returns an error, decrypt_seed with a KEK other than the sealing KEK     *)
(* returns AuthFailed, and decrypt_bytes with a photo id other than the one *)
(* given to encrypt_bytes returns an error.                                 *)
C29_WrongKeyOrAadFails ==
    /\ (AeOpened("decrypt_aes_gcm", "encrypt_aes_gcm") /\ ae_last.key # ae_box.key) =>
          (~ae_last.res.ok /\ ae_last.res.val = <<>>)
    /\ (AeOpened("decrypt_seed", "encrypt_seed") /\ ae_last.key # ae_box.key
          /\ ae_last.cipher = ae_box.cipher) =>
          ae_last.res = Err("AuthFailed")
    /\ (DbSameKeysUnaltered /\ db_last.photo_id # db_sealed.photo_id) =>
          (~db_last.res.ok /\ db_last.res.val = <<>>)

(* A seed was opened with another KEK and a photo envelope under another   *)
(* photo id.                                                               *)
C29_Witness ==
    /\ AeOpened("decrypt_seed", "encrypt_seed") /\ ae_last.key # ae_box.key
    /\ ae_last.cipher = ae_box.cipher
    /\ DbSameKeysUnaltered /\ db_last.photo_id # db_sealed.photo_id


(* C30: for one seed, two calls of the same derivation function with the   *)
(* same purpose, epoch and file id return the same key, two calls that      *)
(* differ in the purpose, the epoch or the file id return different keys,   *)
(* and the photos, thumbs, index and HMAC keys of one KeyManager are        *)
(* pairwise different.                                                      *)
KdSameFunctionAndSeed == kd_a.fn # "" /\ kd_a.fn = kd_b.fn /\ kd_a.seed = kd_b.seed
KdSameInputs ==
    kd_a.purpose = kd_b.purpose /\ kd_a.epoch = kd_b.epoch /\ kd_a.file_id = kd_b.file_id

C30_DerivationSeparates ==
    /\ (KdSameFunctionAndSeed /\ KdSameInputs) => kd_a.key = kd_b.key
    /\ (KdSameFunctionAndSeed /\ ~KdSameInputs) => kd_a.key # kd_b.key
    /\ IsSome(kd_km) =>
          Cardinality({kd_km[1].km.photos_key, kd_km[1].km.thumbs_key,
                       kd_km[1].km.index_key, kd_km[1].km.hmac_key}) = 4


(* C31: calculate_threat_score returns min(100, 10 * failed_attempts_24h   *)
(* + 20 if unusual_hour_access + 30 if rapid_access_attempts + 15 if        *)
(* new_device_detected) for every value of the metrics, with no overflow,   *)
(* and update_threat_level sets Normal for a score of 0 to 20, Elevated for *)
(* 21 to 50, High for 51 to 80 and Critical for 81 to 100.  From 10 failed  *)
(* attempts on the sum is at least 100, so the minimum is 100.              *)
ClaimedScore(m) ==
    IF m.failed_attempts_24h >= 10 THEN 100
    ELSE Min(100, 10 * m.failed_attempts_24h
                    + (IF m.unusual_hour_access THEN 20 ELSE 0)
                    + (IF m.rapid_access_attempts THEN 30 ELSE 0)
                    + (IF m.new_device_detected THEN 15 ELSE 0))
ClaimedLevel(score) ==
    CASE score \in 0..20 -> "Normal"
      [] score \in 21..50 -> "Elevated"
      [] score \in 51..80 -> "High"
      [] score \in 81..100 -> "Critical"

C31_ThreatScoreAndLevel ==
    /\ pl_last.op = "calculate_threat_score" =>
          pl_last.res = Ok(ClaimedScore(pl_last.pre.metrics))
    /\ pl_last.op = "update_threat_level" =>
          /\ pl_last.res.ok
          /\ pl_policy.threat_level = ClaimedLevel(ClaimedScore(pl_last.pre.metrics))
    /\ pl_last.op \in {"calculate_threat_score", "update_threat_level"} =>
          ~threat_score_overflows(pl_last.pre)

(* C32: auto_tune_argon2(cpu_count, available_memory_mb) sets               *)
(* argon2_parallelism = clamp(cpu_count / 2, 1, 8), argon2_memory_mib =     *)
(* clamp(available_memory_mb / 4, 16, 512) and argon2_time_cost = 2 if      *)
(* argon2_memory_mib >= 128 else 3, and changes no other field of the       *)
(* policy except updated_at.                                                *)
Clamp(x, lo, hi) == IF x < lo THEN lo ELSE IF x > hi THEN hi ELSE x
TunedFields == {"argon2_parallelism", "argon2_memory_mib", "argon2_time_cost", "updated_at"}

C32_AutoTuneArgon2 ==
    pl_last.op = "auto_tune_argon2" =>
        /\ pl_policy.argon2_parallelism = Clamp(pl_last.res.val[1] \div 2, 1, 8)
        /\ pl_policy.argon2_memory_mib = Clamp(pl_last.res.val[2] \div 4, 16, 512)
        /\ pl_policy.argon2_time_cost = IF pl_policy.argon2_memory_mib >= 128 THEN 2 ELSE 3
        /\ \A f \in DOMAIN pl_policy \ TunedFields : pl_policy[f] = pl_last.pre[f]

(* A policy with a raised threat level was tuned on a machine with one CPU *)
(* and less than 64 MB of memory: both lower clamps apply.                 *)
C32_Witness ==
    /\ pl_last.op = "auto_tune_argon2"
    /\ pl_last.res.val[1] \div 2 < 1 /\ pl_last.res.val[2] \div 4 < 16
    /\ pl_last.pre.threat_level # "Normal"
    /\ pl_policy.updated_at # pl_last.pre.updated_at


(* C33: after max_attempts consecutive failed verifications is_locked() is *)
(* true, and while the lockout lasts every authenticate_pin call returns    *)
(* TooManyAttempts without calling verify, even for the right PIN; a PIN    *)
(* that verifies while not locked out sets authenticated = true,            *)
(* failed_attempts = 0 and locked_until = None; a PIN that does not verify  *)
(* increases failed_attempts by exactly 1.                                  *)
BioCalled == bio_last.op = "authenticate_pin"
BioWasLocked == is_locked(bio_last.pre, bio_now)

C33_PinLockout ==
    /\ (BioCalled /\ bio_last.verify_called /\ ~bio_last.res.ok
          /\ bio_streak >= bio[1].config.max_attempts) =>
          is_locked(bio[1].state, bio_now)
    /\ (BioCalled /\ BioWasLocked) =>
          (bio_last.res = Err("TooManyAttempts") /\ ~bio_last.verify_called)
    /\ (BioCalled /\ ~BioWasLocked /\ bio_last.res.ok) =>
          /\ bio[1].state.authenticated
          /\ bio[1].state.failed_attempts = 0
          /\ bio[1].state.locked_until = None
    /\ (BioCalled /\ ~BioWasLocked /\ ~bio_last.res.ok) =>
          bio[1].state.failed_attempts = bio_last.pre.failed_attempts + 1

(* C34: every record_event call returns: whatever the event and the state of
   the brain, the call does not end waiting for the events lock that its own
   thread holds. *)
C34_RecordEventReturns ==
    /\ \A t \in Threads : bpc[t] # "blocked"
    /\ blast.op = "record_event" => blast.ret # "blocked"

(* C35: under every interleaving of lock() with import_photo, get_photo,
   get_thumbnail or reset on another thread, no gated operation finds the
   state Unlocked and the keys absent: none panics on the unwrap of the keys. *)
C35_GatedRunsWithKeys == \A t \in Threads : gret[t] # "panic"

(***************************************************************************)
(* Claims about a SnapshotManager that takes over a directory.             *)
(***************************************************************************)
OtherSnapshots == {f \in snap_files : f.data # to_json("PqxSnapshot", snap[1].s)}

LatestOf(files) == CHOOSE f \in files : \A g \in files : EpochOf(g) <= EpochOf(f)

(* C36: the first snapshot that a manager made by new() creates has an epoch
   greater than every epoch already in the directory and a prev_hash equal to
   the hash of the latest snapshot there; no two files carry the same epoch
   and verify_chain over the directory reports chain_intact = true. *)
C36_NewContinuesLog ==
    (slast.op = "create_snapshot" /\ slast.ok /\ slast.pre_hash = None) =>
        /\ \A f \in OtherSnapshots : EpochOf(f) < snap[1].s.epoch
        /\ OtherSnapshots # {} =>
              snap[1].s.prev_hash =
                  Some(compute_hash(from_json("PqxSnapshot", LatestOf(OtherSnapshots).data).val,
                                    SignOrder))
        /\ Cardinality({EpochOf(f) : f \in snap_files}) = Cardinality(snap_files)
        /\ verify_chain(snap_files, [i \in 1..Cardinality(snap_files) |-> SignOrder],
                        SignSeed).chain_intact

(* C37: a create_snapshot call that fails because the file could not be
   written leaves current_epoch and last_hash as they were before the call. *)
C37_FailedSaveKeepsCounters ==
    (slast.op = "create_snapshot" /\ ~slast.ok) =>
        /\ sm[1].last_hash = slast.pre_hash
        /\ sm[1].current_epoch = snap[1].s.epoch - 1

(***************************************************************************)
(* Claims about rotate called by several threads.                          *)
(***************************************************************************)
RcAllReturned == rc_rets # <<>> /\ \A t \in Threads : rc_pc[t] = "idle"

RcDistinctEpochs ==
    /\ \A i \in 1..Len(rc_rets) : rc_rets[i].ok
    /\ \A i, j \in 1..Len(rc_rets) : i # j => rc_rets[i].val # rc_rets[j].val

(* C38: when all the rotate calls that the threads made have returned, each
   has returned an epoch different from the others', current_epoch is the
   initial epoch plus the number of calls, and rotation.json holds the state
   of the manager, current_epoch and epoch_history included. *)
C38_ConcurrentRotate ==
    RcAllReturned =>
        /\ RcDistinctEpochs
        /\ rot[1].current_epoch = rc_initial + Len(rc_rets)
        /\ rotation_json = Some(to_json("RotationState", rot[1]))

(* C39: over every sequence of open and unlock calls on one root, the wrong
   PINs tried against the manifest since the last successful unlock number at
   most max_failed_attempts, and an unlock on a root whose handle was driven
   into Lockdown is refused with TooManyAttempts, also on a handle that
   open() returned afterwards. *)
C39_LockdownSurvivesReopen ==
    /\ root_wrong <= DefaultMaxFailedAttempts
    /\ (vlast.op = "unlock" /\ root_pre) => (~vlast.ok /\ vlast.err = "TooManyAttempts")

=============================================================================
